---- MODULE Spec2Model ----
(***************************************************************************)
(* Bitboard chess position of mineshpatel1/chess (src/game/board.py):      *)
(* geometry tables, FEN parsing and formatting, pseudo-legal and legal     *)
(* move generation, make_move / unmake_move, make_safe_move and the perft  *)
(* traversal.  A bitboard is modelled as the set of squares whose bit is   *)
(* set: & is \cap, | is \cup, ^ is symmetric difference, msb / lsb are the *)
(* largest / smallest element.                                             *)
(***************************************************************************)
EXTENDS Integers, Sequences, FiniteSets, TLC

VARIABLES
    board,      \* the Board object: every field of src/game/board.py Board
    op,         \* the Board method that ran last
    err,        \* how that call ended: "ok" or the name of the exception raised
    fen_in,     \* the FEN string the Board was constructed from
    pc,         \* perft traversal: position of the driver
    depth,      \* the depth argument of traverse_moves or of the search that ran last
    frames,     \* perft traversal: one suspended legal_moves generator per level
    counter,    \* perft traversal: leaves counted so far
    best_move,  \* search: what minimax, negamax or alpha_beta returned last
    cmd,        \* UciEngine: the command line run() read last
    stdout,     \* UciEngine: the lines written to standard output for that command
    uci_in,     \* the string last given to Move.from_uci
    parsed,     \* the Move that Move.from_uci returned for it
    game,       \* the piece-list Game of src/engine/game.py and the objects it refers to
    ret,        \* the value the property or method that ran last returned
    pool        \* alpha_beta: the jobs of multiprocessing.Pool.starmap and its worker processes

vars == <<board, op, err, fen_in, pc, depth, frames, counter, best_move, cmd, stdout, uci_in,
          parsed, game, ret, pool>>

-----------------------------------------------------------------------------
(* Colours, piece types, squares                                           *)

WHITE == TRUE
BLACK == FALSE
Colours == {WHITE, BLACK}

PAWN == "p"
ROOK == "r"
KNIGHT == "n"
BISHOP == "b"
QUEEN == "q"
KING == "k"
PIECE_TYPES == <<PAWN, ROOK, KNIGHT, BISHOP, QUEEN, KING>>
PieceTypeSet == {PAWN, ROOK, KNIGHT, BISHOP, QUEEN, KING}

\* Python's None, and a value that is not None: an optional value is the empty
\* sequence or a one-element sequence
None == <<>>
Some(x) == <<x>>
Val(o) == o[1]

SQUARES == 0 .. 63

\* Python list indexing: a negative index counts from the end of the list.
Ix(i) == IF i < 0 THEN i + 64 ELSE i

\* Square.file: self % 8 (Python's % is non-negative for a positive modulus)
File(sq) == sq % 8

\* Square.rank: int(self / 8), truncating towards zero
Rank(sq) == IF sq >= 0 THEN sq \div 8 ELSE -((-sq) \div 8)

file_rank_to_index(file, rank) == (rank * 8) + (file % 8)

\* mirror_square: sq ^ 56 flips the rank and keeps the file
mirror_square(sq) == (7 - Rank(sq)) * 8 + File(sq)

\* SQUARES_VFLIP: a8 .. h8, a7 .. h7, ..., a1 .. h1
SQUARES_VFLIP == [i \in 1 .. 64 |-> mirror_square(i - 1)]

A1 == file_rank_to_index(0, 0)
E1 == file_rank_to_index(4, 0)
H1 == file_rank_to_index(7, 0)
A8 == file_rank_to_index(0, 7)
E8 == file_rank_to_index(4, 7)
H8 == file_rank_to_index(7, 7)

-----------------------------------------------------------------------------
(* Bitboards                                                               *)

BB_EMPTY == {}
BB_BOARD == SQUARES

\* msb(x) = x.bit_length() - 1, which is -1 for the empty bitboard
msb(bb) == IF bb = {} THEN -1 ELSE CHOOSE x \in bb : \A y \in bb : y <= x

\* lsb(x) = msb(x & -x)
lsb(bb) == IF bb = {} THEN -1 ELSE CHOOSE x \in bb : \A y \in bb : x <= y

bit_count(bb) == Cardinality(bb)

Xor(a, b) == (a \ b) \cup (b \ a)

BB_SQUARES(sq) == {Ix(sq)}

\* TLC evaluates the arguments of an operator only when they are first read.
\* Strict(x) is TRUE; evaluated first, it makes TLC compute x there and then.
Strict(x) == x = x

\* A Python loop `for x in seq[lo .. hi]: st = Step(st, x)`: the loop state after
\* the last iteration.  The iterations are applied in order; the range is halved
\* only to keep TLC's evaluation stack shallow.
RECURSIVE FoldSeq(_, _, _, _, _)
FoldSeq(Step(_, _), st, seq, lo, hi) ==
    IF lo > hi THEN st
    ELSE IF lo = hi THEN Step(st, seq[lo])
    ELSE LET mid == (lo + hi) \div 2
             left == FoldSeq(Step, st, seq, lo, mid)
         IN  IF Strict(left) THEN FoldSeq(Step, left, seq, mid + 1, hi) ELSE left

\* the loop over a whole sequence
Loop(Step(_, _), st, seq) == FoldSeq(Step, st, seq, 1, Len(seq))

\* the squares 63, 62, ..., 0: the order in which bitboard_to_squares yields
DescSquares == [i \in 1 .. 64 |-> 64 - i]

\* bitboard_to_squares: the set squares of a bitboard, most significant first
bitboard_to_squares(bb) == SelectSeq(DescSquares, LAMBDA s : s \in bb)

BB_FILE(f) == {sq \in SQUARES : File(sq) = f}
BB_FILE_A == BB_FILE(0)
BB_FILE_H == BB_FILE(7)

InBoard(f, r) == 0 <= f /\ f < 8 /\ 0 <= r /\ r < 8

\* _gen_moves: step moves from every square by the given (file, rank) offsets
gen_moves(intervals) ==
    [sq \in SQUARES |->
        {file_rank_to_index(File(sq) + iv[1], Rank(sq) + iv[2]) :
            iv \in {x \in intervals : InBoard(File(sq) + x[1], Rank(sq) + x[2])}}]

\* _gen_rays: every square from sq in one direction up to the board edge
gen_rays(file_adjust, rank_adjust) ==
    [sq \in SQUARES |->
        {file_rank_to_index(File(sq) + k * file_adjust, Rank(sq) + k * rank_adjust) :
            k \in {j \in 1 .. 7 :
                InBoard(File(sq) + j * file_adjust, Rank(sq) + j * rank_adjust)}}]

NORTH == "n"
NORTHEAST == "ne"
EAST == "e"
SOUTHEAST == "se"
SOUTH == "s"
SOUTHWEST == "sw"
WEST == "w"
NORTHWEST == "nw"
Directions == <<NORTH, NORTHEAST, EAST, SOUTHEAST, SOUTH, SOUTHWEST, WEST, NORTHWEST>>

BB_ORIGINAL_ROOKS == [c \in Colours |-> IF c = WHITE THEN {A1, H1} ELSE {A8, H8}]

BB_KNIGHT_MOVES ==
    gen_moves({<<1, 2>>, <<1, -2>>, <<-1, 2>>, <<-1, -2>>,
               <<2, 1>>, <<2, -1>>, <<-2, 1>>, <<-2, -1>>})

BB_KING_MOVES ==
    gen_moves({<<1, 1>>, <<0, 1>>, <<1, 0>>, <<-1, -1>>,
               <<-1, 0>>, <<0, -1>>, <<1, -1>>, <<-1, 1>>})

BB_PAWN_ATTACKS ==
    [c \in Colours |-> IF c = WHITE THEN gen_moves({<<1, 1>>, <<-1, 1>>})
                                    ELSE gen_moves({<<1, -1>>, <<-1, -1>>})]

BB_PAWN_SINGLE ==
    [c \in Colours |-> IF c = WHITE THEN gen_moves({<<0, 1>>})
                                    ELSE gen_moves({<<0, -1>>})]

\* the double advances as they would be if no pawn could advance two squares
BB_PAWN_DOUBLE_NONE == [c \in Colours |-> [sq \in SQUARES |-> BB_EMPTY]]

\* _double_pawn_advances: the single advance shifted one more rank, from the
\* pawn's starting rank only
BB_PAWN_DOUBLE ==
    [c \in Colours |->
        [sq \in SQUARES |->
            IF c = WHITE /\ Rank(sq) = 1
                THEN {s + 8 : s \in BB_PAWN_SINGLE[WHITE][sq]}
            ELSE IF c = BLACK /\ Rank(sq) = 6
                THEN {s - 8 : s \in BB_PAWN_SINGLE[BLACK][sq]}
            ELSE {}]]

BB_RAYS ==
    [d \in {Directions[i] : i \in 1 .. 8} |->
        CASE d = NORTH -> gen_rays(0, 1)
          [] d = NORTHEAST -> gen_rays(1, 1)
          [] d = EAST -> gen_rays(1, 0)
          [] d = SOUTHEAST -> gen_rays(1, -1)
          [] d = SOUTH -> gen_rays(0, -1)
          [] d = SOUTHWEST -> gen_rays(-1, -1)
          [] d = WEST -> gen_rays(-1, 0)
          [] d = NORTHWEST -> gen_rays(-1, 1)]

BB_CARDINALS ==
    [i \in SQUARES |->
        BB_RAYS[NORTH][i] \cup BB_RAYS[EAST][i] \cup BB_RAYS[SOUTH][i] \cup BB_RAYS[WEST][i]]

BB_DIAGONALS ==
    [i \in SQUARES |->
        BB_RAYS[NORTHEAST][i] \cup BB_RAYS[SOUTHEAST][i]
            \cup BB_RAYS[SOUTHWEST][i] \cup BB_RAYS[NORTHWEST][i]]

\* _calc_between
calc_between(rays, from_sq, to_sq) ==
    LET possible == rays[from_sq]
        blockers == possible \cap BB_SQUARES(to_sq)
        blocked_paths == rays[Ix(lsb(blockers))] \cup rays[Ix(msb(blockers))]
    IN  Xor(possible \ blocked_paths, BB_SQUARES(to_sq))

\* BB_BETWEEN[a][b]: the squares strictly between a and b on a shared ray
BB_BETWEEN ==
    [from_sq \in SQUARES |->
        [to_sq \in SQUARES |->
            LET ds == {d \in DOMAIN BB_RAYS : to_sq \in BB_RAYS[d][from_sq]}
            IN  IF ds = {} THEN BB_EMPTY
                ELSE calc_between(BB_RAYS[CHOOSE d \in ds : TRUE], from_sq, to_sq)]]

-----------------------------------------------------------------------------
(* Characters and strings.  A Python string is modelled as the sequence of *)
(* its characters, each a one-character string.                            *)

Digits == <<"0", "1", "2", "3", "4", "5", "6", "7", "8", "9">>

\* str.isdigit() of one character
IsDigit(ch) == \E i \in 1 .. 10 : Digits[i] = ch

\* int(ch) of one digit character
DigitVal(ch) == (CHOOSE i \in 1 .. 10 : Digits[i] = ch) - 1

UpperLetters ==
    <<"A", "B", "C", "D", "E", "F", "G", "H", "I", "J", "K", "L", "M",
      "N", "O", "P", "Q", "R", "S", "T", "U", "V", "W", "X", "Y", "Z">>
LowerLetters ==
    <<"a", "b", "c", "d", "e", "f", "g", "h", "i", "j", "k", "l", "m",
      "n", "o", "p", "q", "r", "s", "t", "u", "v", "w", "x", "y", "z">>

\* str.isupper() of one character
IsUpper(ch) == \E i \in DOMAIN UpperLetters : UpperLetters[i] = ch

\* str.lower() of one character
Lower(ch) ==
    IF IsUpper(ch)
        THEN LowerLetters[CHOOSE i \in DOMAIN UpperLetters : UpperLetters[i] = ch]
        ELSE ch

\* str.upper() of one character
Upper(ch) ==
    IF \E i \in DOMAIN LowerLetters : LowerLetters[i] = ch
        THEN UpperLetters[CHOOSE i \in DOMAIN LowerLetters : LowerLetters[i] = ch]
        ELSE ch

\* int(s) of a string of decimal digits
ParseInt(s) == Loop(LAMBDA n, ch : 10 * n + DigitVal(ch), 0, s)

\* str(n) of a non-negative integer
RECURSIVE IntToStr(_)
IntToStr(n) ==
    IF n < 10 THEN <<Digits[n + 1]>>
    ELSE IntToStr(n \div 10) \o <<Digits[(n % 10) + 1]>>

\* s.split(' '): the components between the spaces of s
Split(s) ==
    LET spaces == {i \in 1 .. Len(s) : s[i] = " "}
        \* the position of the k-th space; 0 before the first, Len(s) + 1 after the last
        pos(k) == IF k = 0 THEN 0
                  ELSE IF k > Cardinality(spaces) THEN Len(s) + 1
                  ELSE CHOOSE p \in spaces : Cardinality({q \in spaces : q < p}) = k - 1
    IN  [k \in 1 .. Cardinality(spaces) + 1 |-> SubSeq(s, pos(k - 1) + 1, pos(k) - 1)]

\* ' '.join(parts)
RECURSIVE Join(_)
Join(parts) ==
    IF Len(parts) = 0 THEN <<>>
    ELSE IF Len(parts) = 1 THEN parts[1]
    ELSE parts[1] \o <<" ">> \o Join(Tail(parts))

FILE_NAMES == <<"A", "B", "C", "D", "E", "F", "G", "H">>
RANK_NAMES == <<"1", "2", "3", "4", "5", "6", "7", "8">>

\* char_to_file
char_to_file(ch) == (CHOOSE i \in 1 .. 8 : FILE_NAMES[i] = Upper(ch)) - 1

\* Square.from_coord
from_coord(coord) == file_rank_to_index(char_to_file(Upper(coord[1])), DigitVal(coord[2]) - 1)

\* Square.name / str(Square)
SquareName(sq) == <<FILE_NAMES[File(sq) + 1], RANK_NAMES[Rank(sq) + 1]>>

LowerStr(s) == [i \in DOMAIN s |-> Lower(s[i])]
UpperStr(s) == [i \in DOMAIN s |-> Upper(s[i])]

-----------------------------------------------------------------------------
(* The Board object                                                         *)

ColourMap(w, b) == [c \in Colours |-> IF c = WHITE THEN w ELSE b]

\* Board.__init__ followed by Board._clear: the empty board
EmptyBoard(track_repetitions) ==
    [pawns |-> ColourMap(BB_EMPTY, BB_EMPTY),
     knights |-> ColourMap(BB_EMPTY, BB_EMPTY),
     bishops |-> ColourMap(BB_EMPTY, BB_EMPTY),
     rooks |-> ColourMap(BB_EMPTY, BB_EMPTY),
     queens |-> ColourMap(BB_EMPTY, BB_EMPTY),
     kings |-> ColourMap(BB_EMPTY, BB_EMPTY),
     occupied |-> BB_EMPTY,
     occupied_colour |-> ColourMap(BB_EMPTY, BB_EMPTY),
     castling_rights |-> BB_ORIGINAL_ROOKS,
     turn |-> WHITE,
     en_passant_sq |-> None,
     halfmove_clock |-> 0,
     fullmoves |-> 0,
     track_repetitions |-> track_repetitions,
     repetitions |-> <<>>,
     move_history |-> <<>>,
     history |-> <<>>]

\* Piece(piece_type, colour)
Piece(piece_type, colour) == [type |-> piece_type, colour |-> colour]

\* the piece the loop body of piece_at finds for one colour, or None
PieceOfColourAt(b, sq, colour) ==
    IF sq \in b.pawns[colour] THEN Some(Piece(PAWN, colour))
    ELSE IF sq \in b.rooks[colour] THEN Some(Piece(ROOK, colour))
    ELSE IF sq \in b.knights[colour] THEN Some(Piece(KNIGHT, colour))
    ELSE IF sq \in b.bishops[colour] THEN Some(Piece(BISHOP, colour))
    ELSE IF sq \in b.queens[colour] THEN Some(Piece(QUEEN, colour))
    ELSE IF sq \in b.kings[colour] THEN Some(Piece(KING, colour))
    ELSE None

\* Board.piece_at
piece_at(b, square) ==
    LET sq == Ix(square)
    IN  IF sq \notin b.occupied THEN None
        ELSE IF PieceOfColourAt(b, sq, WHITE) # None THEN PieceOfColourAt(b, sq, WHITE)
        ELSE PieceOfColourAt(b, sq, BLACK)

\* bbs[colour] ^= mask and bbs[colour] |= mask
XorAt(bbs, colour, mask) == [bbs EXCEPT ![colour] = Xor(@, mask)]
OrAt(bbs, colour, mask) == [bbs EXCEPT ![colour] = @ \cup mask]

\* Board.remove_piece, lines 776-790: the bitboards with the piece found on
\* the square cleared
ClearPiece(b, mask, piece) ==
    LET b1 ==
            CASE piece.type = PAWN -> [b EXCEPT !.pawns = XorAt(@, piece.colour, mask)]
              [] piece.type = ROOK -> [b EXCEPT !.rooks = XorAt(@, piece.colour, mask)]
              [] piece.type = KNIGHT -> [b EXCEPT !.knights = XorAt(@, piece.colour, mask)]
              [] piece.type = BISHOP -> [b EXCEPT !.bishops = XorAt(@, piece.colour, mask)]
              [] piece.type = QUEEN -> [b EXCEPT !.queens = XorAt(@, piece.colour, mask)]
              [] piece.type = KING -> [b EXCEPT !.kings = XorAt(@, piece.colour, mask)]
    IN  [b1 EXCEPT !.occupied = Xor(@, mask),
                   !.occupied_colour = XorAt(@, piece.colour, mask)]

\* Board.remove_piece, lines 772-775: nothing changes on an empty square
RemoveFound(b, mask, found) ==
    IF found = None THEN b ELSE ClearPiece(b, mask, Val(found))

\* Board.remove_piece: the board after the call
remove_piece(b, square) == RemoveFound(b, BB_SQUARES(square), piece_at(b, square))

\* Board.place_piece, lines 742-759: the bitboards with a piece of type t
\* (piece_type.lower()) set on the square
SetPiece(b, mask, t, colour) ==
    LET b1 ==
            CASE t = PAWN -> [b EXCEPT !.pawns = OrAt(@, colour, mask)]
              [] t = ROOK -> [b EXCEPT !.rooks = OrAt(@, colour, mask)]
              [] t = KNIGHT -> [b EXCEPT !.knights = OrAt(@, colour, mask)]
              [] t = BISHOP -> [b EXCEPT !.bishops = OrAt(@, colour, mask)]
              [] t = QUEEN -> [b EXCEPT !.queens = OrAt(@, colour, mask)]
              [] t = KING -> [b EXCEPT !.kings = OrAt(@, colour, mask)]
              [] OTHER -> b
    IN  [b1 EXCEPT !.occupied = @ \cup mask,
                   !.occupied_colour = OrAt(@, colour, mask)]

\* place_piece as it would be without the remove_piece call it starts with
place_piece_without_remove(b, square, piece_type, colour) ==
    IF piece_type = None THEN b
    ELSE SetPiece(b, BB_SQUARES(square), Lower(Val(piece_type)), colour)

\* Board.place_piece: the board after the call.  With piece_type None the
\* call raises AttributeError at piece_type.lower(), after remove_piece ran.
place_piece(b, square, piece_type, colour) ==
    IF piece_type = None THEN remove_piece(b, square)
    ELSE SetPiece(remove_piece(b, square), BB_SQUARES(square),
                  Lower(Val(piece_type)), colour)

\* _update_castling_rights as it would be without the test that the kings are
\* on their home squares
update_castling_rights_any_king(b) ==
    IF (b.castling_rights[WHITE] \cup b.castling_rights[BLACK]) = {} THEN b
    ELSE [b EXCEPT !.castling_rights =
            ColourMap(BB_ORIGINAL_ROOKS[WHITE] \cap b.rooks[WHITE] \cap b.castling_rights[WHITE],
                      BB_ORIGINAL_ROOKS[BLACK] \cap b.rooks[BLACK] \cap b.castling_rights[BLACK])]

\* Board._update_castling_rights
update_castling_rights(b) ==
    IF (b.castling_rights[WHITE] \cup b.castling_rights[BLACK]) = {} THEN b
    ELSE LET white_castling ==
                 BB_ORIGINAL_ROOKS[WHITE] \cap b.rooks[WHITE] \cap b.castling_rights[WHITE]
             black_castling ==
                 BB_ORIGINAL_ROOKS[BLACK] \cap b.rooks[BLACK] \cap b.castling_rights[BLACK]
         IN  [b EXCEPT !.castling_rights =
                ColourMap(IF b.kings[WHITE] \cap {E1} = {} THEN BB_EMPTY ELSE white_castling,
                          IF b.kings[BLACK] \cap {E8} = {} THEN BB_EMPTY ELSE black_castling)]

\* truthiness of an optional square: None and Square(0) are falsy
Truthy(osq) == osq # None /\ Val(osq) # 0

\* Board._bb_en_passant
bb_en_passant(b) ==
    IF Truthy(b.en_passant_sq) THEN BB_SQUARES(Val(b.en_passant_sq)) ELSE BB_EMPTY

-----------------------------------------------------------------------------
(* FEN                                                                      *)

\* the body of the loop of _set_from_fen over the piece placement field; st
\* holds the loop's variables: the board so far, rank and file
PlaceChar(st, char) ==
    IF IsDigit(char) THEN [st EXCEPT !.file = @ + DigitVal(char)]
    ELSE IF char = "/" THEN [st EXCEPT !.rank = @ - 1, !.file = 0]
    ELSE [b |-> place_piece(st.b, file_rank_to_index(st.file, st.rank), Some(Lower(char)),
                            IF IsUpper(char) THEN WHITE ELSE BLACK),
          rank |-> st.rank,
          file |-> st.file + 1]

\* _set_from_fen, lines 137-150: the pieces of the placement field placed
SetPlacement(b, placement) ==
    Loop(PlaceChar, [b |-> b, rank |-> 7, file |-> 0], placement).b

\* _set_from_fen, lines 152-155: the side to move
SetTurn(b, components) ==
    IF Len(components) > 1
        THEN [b EXCEPT !.turn = IF LowerStr(components[2]) = <<"b">> THEN BLACK ELSE WHITE]
        ELSE b

\* _set_from_fen, lines 157-159: the en-passant square
SetEnPassant(b, components) ==
    IF Len(components) > 3
        THEN [b EXCEPT !.en_passant_sq =
                IF UpperStr(components[4]) = <<"-">> THEN None
                ELSE Some(from_coord(UpperStr(components[4])))]
        ELSE b

\* _set_from_fen, lines 161-165: the halfmove clock and the fullmove number
SetClocks(b, components) ==
    [b EXCEPT !.halfmove_clock = IF Len(components) > 4 THEN ParseInt(components[5]) ELSE @,
              !.fullmoves = IF Len(components) > 5 THEN ParseInt(components[6]) ELSE @]

\* _set_from_fen, lines 137-167, for the fields fen.split(' ') gave
SetFromComponents(b, components) ==
    update_castling_rights(
        SetClocks(SetEnPassant(SetTurn(SetPlacement(b, components[1]), components),
                               components),
                  components))

\* Board._set_from_fen
set_from_fen(b, fen) == SetFromComponents(b, Split(fen))

\* Board(fen, track_repetitions)
NewBoard(fen, track_repetitions) == set_from_fen(EmptyBoard(track_repetitions), fen)

\* Piece.code
PieceCode(piece) == IF piece.colour = WHITE THEN Upper(piece.type) ELSE Lower(piece.type)

\* Board.castle_flags
castle_flags(b) ==
    LET flag(file, letter, colour) ==
            IF b.castling_rights[colour] \cap file # {}
                THEN <<IF colour = WHITE THEN Upper(letter) ELSE Lower(letter)>>
                ELSE <<>>
        flags == flag(BB_FILE_H, "k", WHITE) \o flag(BB_FILE_A, "q", WHITE)
                    \o flag(BB_FILE_H, "k", BLACK) \o flag(BB_FILE_A, "q", BLACK)
    IN  IF Len(flags) > 0 THEN flags ELSE <<"-">>

\* the body of the loop of Board.fen over SQUARES_VFLIP, for the board b; st
\* holds the loop's variables: fen_str, rank and blank_counter
FenSquare(b, st, sq) ==
    LET newrank == st.rank > Rank(sq)
        flush1 == IF newrank /\ st.blank_counter > 0 THEN IntToStr(st.blank_counter) ELSE <<>>
        sep == IF newrank THEN <<"/">> ELSE <<>>
        bc1 == IF newrank /\ st.blank_counter > 0 THEN 0 ELSE st.blank_counter
        found == piece_at(b, sq)
        flush2 == IF found # None /\ bc1 > 0 THEN IntToStr(bc1) ELSE <<>>
        code == IF found # None THEN <<PieceCode(Val(found))>> ELSE <<>>
        bc2 == IF found # None THEN 0 ELSE bc1 + 1
        last == IF sq = H1 /\ found = None THEN IntToStr(bc2) ELSE <<>>
    IN  [fen_str |-> st.fen_str \o flush1 \o sep \o flush2 \o code \o last,
         rank |-> IF newrank THEN Rank(sq) ELSE st.rank,
         blank_counter |-> bc2]

\* the piece placement field of Board.fen
FenPlacement(b) ==
    Loop(LAMBDA st, sq : FenSquare(b, st, sq),
         [fen_str |-> <<>>, rank |-> 7, blank_counter |-> 0], SQUARES_VFLIP).fen_str

\* Board.fen
fen(b) ==
    LET turn == IF b.turn = WHITE THEN <<"w">> ELSE <<"b">>
        en_passant == IF ~Truthy(b.en_passant_sq) THEN <<"-">>
                      ELSE LowerStr(SquareName(Val(b.en_passant_sq)))
    IN  Join(<<FenPlacement(b), turn, castle_flags(b), en_passant,
               IntToStr(b.halfmove_clock), IntToStr(b.fullmoves)>>)

\* Board._short_fen
short_fen(b) == Join(SubSeq(Split(fen(b)), 1, 4))

-----------------------------------------------------------------------------
(* Attacks and move generation                                              *)

\* Move(from_square, to_square, is_castling, promotion)
Move(from_square, to_square, is_castling, promotion) ==
    [from_square |-> from_square, to_square |-> to_square,
     is_castling |-> is_castling, promotion |-> promotion]

\* Move.__eq__: from and to squares only
MoveEq(m, other) == other.from_square = m.from_square /\ other.to_square = m.to_square

\* _attack_rays_from_square as it would be if only the lowest blocker cut the ray
RayAttackLowestBlocker(b, square, direction, ignore) ==
    LET possible == BB_RAYS[direction][square]
        blockers == (possible \cap b.occupied) \ ignore
        blocked_paths ==
            IF blockers # {} THEN BB_RAYS[direction][lsb(blockers)] ELSE BB_EMPTY
    IN  possible \ blocked_paths

\* one direction of Board._attack_rays_from_square
RayAttack(b, square, direction, ignore) ==
    LET possible == BB_RAYS[direction][square]
        blockers == (possible \cap b.occupied) \ ignore
        blocked_paths ==
            IF blockers # {}
                THEN BB_RAYS[direction][lsb(blockers)] \cup BB_RAYS[direction][msb(blockers)]
                ELSE BB_EMPTY
    IN  possible \ blocked_paths

\* Board._attack_rays_from_square
attack_rays_from_square(b, square, directions, ignore) ==
    UNION {RayAttack(b, square, d, ignore) : d \in directions}

CardinalDirections == {NORTH, EAST, WEST, SOUTH}
DiagonalDirections == {NORTHWEST, NORTHEAST, SOUTHWEST, SOUTHEAST}

\* _filter_occupied, the local function of Board._moves_from_square
filter_occupied(b, colour, attacks_only, moves) ==
    IF attacks_only THEN moves ELSE moves \ b.occupied_colour[colour]

\* _moves_from_square, lines 197-203: the moves of a pawn when attacks_only is False
PawnMovesFromSquare(b, square, colour) ==
    LET captures == BB_PAWN_ATTACKS[colour][square]
                        \cap (b.occupied_colour[~colour] \cup bb_en_passant(b))
        single == BB_PAWN_SINGLE[colour][square] \ b.occupied
    IN  IF single # {}
            THEN captures \cup single \cup (BB_PAWN_DOUBLE[colour][square] \ b.occupied)
            ELSE captures

\* Board._moves_from_square; the None it returns for a square that holds no
\* piece of the colour is the empty bitboard here (every caller tests `if moves`)
moves_from_square(b, square, colour, attacks_only, ignore) ==
    IF square \in b.pawns[colour] THEN
        IF attacks_only THEN BB_PAWN_ATTACKS[colour][square]
        ELSE PawnMovesFromSquare(b, square, colour)
    ELSE IF square \in b.rooks[colour] THEN
        filter_occupied(b, colour, attacks_only,
                        attack_rays_from_square(b, square, CardinalDirections, ignore))
    ELSE IF square \in b.knights[colour] THEN
        filter_occupied(b, colour, attacks_only, BB_KNIGHT_MOVES[square])
    ELSE IF square \in b.bishops[colour] THEN
        filter_occupied(b, colour, attacks_only,
                        attack_rays_from_square(b, square, DiagonalDirections, ignore))
    ELSE IF square \in b.queens[colour] THEN
        filter_occupied(b, colour, attacks_only,
                        attack_rays_from_square(
                            b, square, CardinalDirections \cup DiagonalDirections, ignore))
    ELSE IF square \in b.kings[colour] THEN
        filter_occupied(b, colour, attacks_only, BB_KING_MOVES[square])
    ELSE BB_EMPTY

\* Board._attack_bitboard
attack_bitboard(b, colour, ignore) ==
    UNION {moves_from_square(b, from_square, colour, TRUE, ignore) :
            from_square \in b.occupied_colour[colour]}

\* Board._filter_blockers
filter_blockers(attackers, target, mask) ==
    {attacker_sq \in attackers : BB_BETWEEN[attacker_sq][Ix(target)] \cap mask = {}}

\* Board._attackers; the filter_blockers argument is a mask, False being the
\* empty mask
attackers_of(b, target, colour, blockers_mask) ==
    LET cardinal_movers == b.rooks[colour] \cup b.queens[colour]
        diagonal_movers == b.bishops[colour] \cup b.queens[colour]
        attackers ==
            (BB_CARDINALS[Ix(target)] \cap cardinal_movers)
            \cup (BB_DIAGONALS[Ix(target)] \cap diagonal_movers)
            \cup (BB_KNIGHT_MOVES[Ix(target)] \cap b.knights[colour])
            \cup (BB_PAWN_ATTACKS[~colour][Ix(target)] \cap b.pawns[colour])
    IN  IF blockers_mask # {} THEN filter_blockers(attackers, target, blockers_mask)
        ELSE attackers

\* Board._protectors
protectors_of(b, target, colour) ==
    LET attackers == attackers_of(b, target, ~colour, BB_EMPTY)
    IN  UNION {BB_BETWEEN[attacker_sq][Ix(target)] \cap b.occupied :
                attacker_sq \in {a \in attackers :
                    Cardinality(BB_BETWEEN[a][Ix(target)] \cap b.occupied) = 1}}

\* the concatenation of seqs[lo .. hi]: what nested loops yield, in order
RECURSIVE ConcatRange(_, _, _)
ConcatRange(seqs, lo, hi) ==
    IF lo > hi THEN <<>>
    ELSE IF lo = hi THEN seqs[lo]
    ELSE ConcatRange(seqs, lo, (lo + hi) \div 2) \o ConcatRange(seqs, (lo + hi) \div 2 + 1, hi)

Concat(seqs) == ConcatRange(seqs, 1, Len(seqs))

\* the moves of a loop `for to_square in ...: yield Move(from_square, to_square)`
MovesTo(from_square, to_squares) ==
    [i \in DOMAIN to_squares |-> Move(from_square, to_squares[i], FALSE, None)]

PromotionKinds == <<QUEEN, ROOK, BISHOP, KNIGHT>>

\* _pseudo_legal_moves, lines 291-295: the moves of one piece that is not a pawn
PieceMovesFrom(b, colour, from_square) ==
    MovesTo(from_square,
            bitboard_to_squares(moves_from_square(b, from_square, colour, FALSE, BB_EMPTY)
                                    \ b.occupied_colour[colour]))

\* _pseudo_legal_moves, lines 290-295, over the squares of the pieces
PieceMovesOf(b, colour, from_squares) ==
    Concat([i \in DOMAIN from_squares |-> PieceMovesFrom(b, colour, from_squares[i])])

\* the first loop of _pseudo_legal_moves: the moves of the pieces that are not pawns
PieceMoves(b, colour) ==
    PieceMovesOf(b, colour, bitboard_to_squares(b.occupied_colour[colour] \ b.pawns[colour]))

\* the moves of a pawn to one square as they would be if a pawn could only
\* promote to a queen
PawnMovesToQueenOnly(b, colour, from_square, to_square) ==
    IF from_square \in b.pawns[colour] /\ Rank(to_square) \in {0, 7}
        THEN <<Move(from_square, to_square, FALSE, Some(QUEEN))>>
        ELSE <<Move(from_square, to_square, FALSE, None)>>

\* _pseudo_legal_moves, lines 305-309: the moves of a pawn to one square
PawnMovesTo(b, colour, from_square, to_square) ==
    IF from_square \in b.pawns[colour] /\ Rank(to_square) \in {0, 7}
        THEN [i \in 1 .. 4 |-> Move(from_square, to_square, FALSE, Some(PromotionKinds[i]))]
        ELSE <<Move(from_square, to_square, FALSE, None)>>

\* _pseudo_legal_moves, lines 304-309, over the squares the pawn moves to
PawnMovesAmong(b, colour, from_square, to_squares) ==
    Concat([i \in DOMAIN to_squares |-> PawnMovesTo(b, colour, from_square, to_squares[i])])

\* _pseudo_legal_moves, lines 300-309: the moves of one pawn
PawnMovesFrom(b, colour, from_square) ==
    PawnMovesAmong(b, colour, from_square,
                   bitboard_to_squares(moves_from_square(b, from_square, colour, FALSE, BB_EMPTY)
                                            \ b.occupied_colour[colour]))

\* _pseudo_legal_moves, lines 299-309, over the squares of the pawns
PawnMovesOf(b, colour, from_squares) ==
    Concat([i \in DOMAIN from_squares |-> PawnMovesFrom(b, colour, from_squares[i])])

\* the second loop of _pseudo_legal_moves: pawn moves, promotions expanded
PawnMoves(b, colour) == PawnMovesOf(b, colour, bitboard_to_squares(b.pawns[colour]))

\* _pseudo_legal_moves, lines 315-317: the castling move towards one rook
CastlingMove(b, from_square, rook_sq) ==
    IF BB_BETWEEN[Ix(from_square)][rook_sq] \cap b.occupied = {}
        THEN <<Move(from_square, IF File(rook_sq) = 0 THEN rook_sq + 2 ELSE rook_sq - 1,
                    TRUE, None)>>
        ELSE <<>>

\* _pseudo_legal_moves, lines 314-317, over the rooks that may castle
CastlingMovesOf(b, from_square, rook_sqs) ==
    Concat([i \in DOMAIN rook_sqs |-> CastlingMove(b, from_square, rook_sqs[i])])

\* the third loop of _pseudo_legal_moves: castling moves
CastlingMoves(b, colour) ==
    CastlingMovesOf(b, msb(b.kings[colour]), bitboard_to_squares(b.castling_rights[colour]))

\* Board._pseudo_legal_moves
pseudo_legal_moves(b, colour) ==
    PieceMoves(b, colour) \o PawnMoves(b, colour) \o CastlingMoves(b, colour)

\* _is_safe as it would be if a move were safe against two or more attackers
is_safe_many_attackers(attackers, king_pos, move) ==
    IF bit_count(attackers) > 1 THEN TRUE
    ELSE IF bit_count(attackers) = 1 THEN
        LET attacker_sq == bitboard_to_squares(attackers)[1]
        IN  (BB_BETWEEN[attacker_sq][Ix(king_pos)] \cap BB_SQUARES(move.to_square) # {})
            \/ move.to_square = attacker_sq
    ELSE TRUE

\* _is_safe, the local function of Board.legal_moves
is_safe(attackers, king_pos, move) ==
    IF bit_count(attackers) > 1 THEN FALSE
    ELSE IF bit_count(attackers) = 1 THEN
        LET attacker_sq == bitboard_to_squares(attackers)[1]
        IN  (BB_BETWEEN[attacker_sq][Ix(king_pos)] \cap BB_SQUARES(move.to_square) # {})
            \/ move.to_square = attacker_sq
    ELSE TRUE

\* the test of a king move as it would be without the test of the square the
\* king crosses when castling
KingMoveOkDestinationOnly(king, attacks, move) ==
    /\ attacks \cap BB_SQUARES(move.to_square) = {}
    /\ move.is_castling => king \cap attacks = {}

\* legal_moves, lines 579-587: whether a move of the king passes
KingMoveOk(king, attacks, move) ==
    /\ attacks \cap BB_SQUARES(move.to_square) = {}
    /\ move.is_castling =>
        /\ king \cap attacks = {}
        /\ attacks \cap BB_BETWEEN[Ix(move.from_square)][Ix(move.to_square)] = {}

\* legal_moves, lines 591-596: whether a move of a piece that protects the king passes
ProtectorMoveOk(b, king_pos, move) ==
    is_safe(Xor(attackers_of(b, king_pos, ~b.turn, BB_SQUARES(move.from_square)),
                attackers_of(b, king_pos, ~b.turn, BB_EMPTY)),
            king_pos, move)

\* legal_moves, lines 577-604: whether the loop yields the move
Yielded(b, king, king_pos, protectors, attacks, move) ==
    /\ move.from_square = king_pos => KingMoveOk(king, attacks, move)
    /\ protectors \cap BB_SQUARES(move.from_square) # {} => ProtectorMoveOk(b, king_pos, move)
    /\ (king \cap attacks # {} /\ move.from_square # king_pos) =>
            is_safe(attackers_of(b, king_pos, ~b.turn, b.occupied), king_pos, move)

\* legal_moves, lines 572-604, for the king of the side to move
LegalAmong(b, king, king_pos, protectors, attacks, moves) ==
    SelectSeq(moves, LAMBDA move : Yielded(b, king, king_pos, protectors, attacks, move))

LegalFor(b, king, king_pos) ==
    LegalAmong(b, king, king_pos, protectors_of(b, king_pos, b.turn),
               attack_bitboard(b, ~b.turn, king), pseudo_legal_moves(b, b.turn))

\* Board.legal_moves
legal_moves(b) == LegalFor(b, b.kings[b.turn], msb(b.kings[b.turn]))

-----------------------------------------------------------------------------
(* make_move / unmake_move                                                  *)

\* _BoardState.__init__: the snapshot of a Board
BoardState(b) ==
    [turn |-> b.turn,
     en_passant_sq |-> b.en_passant_sq,
     halfmove_clock |-> b.halfmove_clock,
     fullmoves |-> b.fullmoves,
     repetitions |-> b.repetitions,
     move_history |-> b.move_history,
     b_pawns |-> b.pawns[BLACK], w_pawns |-> b.pawns[WHITE],
     b_rooks |-> b.rooks[BLACK], w_rooks |-> b.rooks[WHITE],
     b_knights |-> b.knights[BLACK], w_knights |-> b.knights[WHITE],
     b_bishops |-> b.bishops[BLACK], w_bishops |-> b.bishops[WHITE],
     b_queens |-> b.queens[BLACK], w_queens |-> b.queens[WHITE],
     b_kings |-> b.kings[BLACK], w_kings |-> b.kings[WHITE],
     occupied |-> b.occupied,
     occupied_colour_w |-> b.occupied_colour[WHITE],
     occupied_colour_b |-> b.occupied_colour[BLACK],
     castling_rights |-> b.castling_rights]

\* _BoardState.load as it would be if it did not write castling_rights back
LoadStateKeepsCastling(state, b) ==
    [b EXCEPT
        !.turn = state.turn,
        !.en_passant_sq = state.en_passant_sq,
        !.halfmove_clock = state.halfmove_clock,
        !.fullmoves = state.fullmoves,
        !.repetitions = state.repetitions,
        !.move_history = state.move_history,
        !.pawns = ColourMap(state.w_pawns, state.b_pawns),
        !.rooks = ColourMap(state.w_rooks, state.b_rooks),
        !.knights = ColourMap(state.w_knights, state.b_knights),
        !.bishops = ColourMap(state.w_bishops, state.b_bishops),
        !.queens = ColourMap(state.w_queens, state.b_queens),
        !.kings = ColourMap(state.w_kings, state.b_kings),
        !.occupied = state.occupied,
        !.occupied_colour = ColourMap(state.occupied_colour_w, state.occupied_colour_b)]

\* _BoardState.load: the Board with the snapshot's fields written back
LoadState(state, b) ==
    [b EXCEPT
        !.turn = state.turn,
        !.en_passant_sq = state.en_passant_sq,
        !.halfmove_clock = state.halfmove_clock,
        !.fullmoves = state.fullmoves,
        !.repetitions = state.repetitions,
        !.move_history = state.move_history,
        !.pawns = ColourMap(state.w_pawns, state.b_pawns),
        !.rooks = ColourMap(state.w_rooks, state.b_rooks),
        !.knights = ColourMap(state.w_knights, state.b_knights),
        !.bishops = ColourMap(state.w_bishops, state.b_bishops),
        !.queens = ColourMap(state.w_queens, state.b_queens),
        !.kings = ColourMap(state.w_kings, state.b_kings),
        !.occupied = state.occupied,
        !.occupied_colour = ColourMap(state.occupied_colour_w, state.occupied_colour_b),
        !.castling_rights = state.castling_rights]

\* Board._save
save(b) == [b EXCEPT !.history = Append(@, BoardState(b))]

\* the result of a Board method: the board it leaves and how it ended
Result(b, e) == [board |-> b, err |-> e]

Abs(x) == IF x < 0 THEN -x ELSE x

\* make_move, the branch that moves the pieces of a castling move
MoveCastling(b, move, piece) ==
    LET rook_shift == IF File(move.to_square) < File(move.from_square) THEN 1 ELSE -1
    IN  [place_piece(
            remove_piece(
                place_piece(remove_piece(b, move.from_square), move.to_square,
                            Some(piece.type), piece.colour),
                file_rank_to_index(IF rook_shift > 0 THEN 0 ELSE 7, Rank(move.to_square))),
            file_rank_to_index(File(move.to_square) + rook_shift, Rank(move.from_square)),
            Some(ROOK), piece.colour)
         EXCEPT !.repetitions = <<>>]

\* make_move, the branch that takes a pawn en passant
MoveEnPassant(b, move, piece) ==
    LET shift == IF piece.colour = WHITE THEN -8 ELSE 8
        capture_sq == Val(b.en_passant_sq) + shift
    IN  place_piece(remove_piece(remove_piece(b, capture_sq), move.from_square),
                    move.to_square, Some(piece.type), piece.colour)

\* make_move, the branch that promotes a pawn
MovePromotion(b, move, piece) ==
    place_piece(remove_piece(b, move.from_square), move.to_square,
                move.promotion, piece.colour)

\* make_move, the branch of a regular move
MoveRegular(b, move, piece) ==
    place_piece(remove_piece(b, move.from_square), move.to_square,
                Some(piece.type), piece.colour)

\* make_move's en-passant square as it would be with the two directions swapped
NextEnPassantSwapped(move, piece) ==
    IF piece.type = PAWN
        THEN LET distance == Rank(move.to_square) - Rank(move.from_square)
             IN  IF Abs(distance) = 2
                    THEN IF distance > 0 THEN Some(move.from_square - 8)
                                         ELSE Some(move.from_square + 8)
                    ELSE None
        ELSE None

\* make_move, lines 702-713: the en-passant square after the move
NextEnPassant(move, piece) ==
    IF piece.type = PAWN
        THEN LET distance == Rank(move.to_square) - Rank(move.from_square)
             IN  IF Abs(distance) = 2
                    THEN IF distance > 0 THEN Some(move.from_square + 8)
                                         ELSE Some(move.from_square - 8)
                    ELSE None
        ELSE None

\* make_move, lines 719-726: halfmove clock and repetitions
UpdateClock(b, piece, captured_piece) ==
    IF piece.type = PAWN \/ captured_piece # None
        THEN [b EXCEPT !.halfmove_clock = 0, !.repetitions = <<>>]
        ELSE IF b.track_repetitions
            THEN [b EXCEPT !.halfmove_clock = @ + 1,
                           !.repetitions =
                                Append(@, short_fen([b EXCEPT !.halfmove_clock = @ + 1]))]
            ELSE [b EXCEPT !.halfmove_clock = @ + 1]

\* make_move, lines 668, 687 and 693: which branch moves the pieces
IsCastle(move, piece) ==
    piece.type = KING /\ Abs(File(move.from_square) - File(move.to_square)) > 1

IsEnPassant(b, move, piece) ==
    ~IsCastle(move, piece) /\ piece.type = PAWN /\ Some(move.to_square) = b.en_passant_sq

IsPromotion(b, move, piece) ==
    /\ ~IsCastle(move, piece)
    /\ ~IsEnPassant(b, move, piece)
    /\ piece.type = PAWN
    /\ Rank(move.to_square) = (IF b.turn = WHITE THEN 7 ELSE 0)

\* make_move, lines 668-700: the pieces moved
MovePieces(b, move, piece) ==
    IF IsCastle(move, piece) THEN MoveCastling(b, move, piece)
    ELSE IF IsEnPassant(b, move, piece) THEN MoveEnPassant(b, move, piece)
    ELSE IF IsPromotion(b, move, piece) THEN MovePromotion(b, move, piece)
    ELSE MoveRegular(b, move, piece)

\* make_move, lines 658 and 690: the piece the move captures
CapturedPiece(b, move, piece) ==
    IF IsEnPassant(b, move, piece)
        THEN piece_at(b, Val(b.en_passant_sq) + (IF piece.colour = WHITE THEN -8 ELSE 8))
        ELSE piece_at(b, move.to_square)

\* make_move, lines 715-717: castling rights when the king or a rook moved
CastlingStep(b, piece) ==
    IF piece.type \in {KING, ROOK} THEN update_castling_rights(b) ELSE b

\* the end of make_move as it would be if fullmoves were incremented after
\* White's moves
EndMoveCountsWhite(b, move) ==
    [b EXCEPT !.fullmoves = IF b.turn = WHITE THEN @ + 1 ELSE @,
              !.move_history = Append(@, move),
              !.turn = ~@]

\* make_move, lines 728-732: fullmoves, move_history and the turn
EndMove(b, move) ==
    [b EXCEPT !.fullmoves = IF b.turn = BLACK THEN @ + 1 ELSE @,
              !.move_history = Append(@, move),
              !.turn = ~@]

\* make_move, lines 702-732: the bookkeeping after the pieces moved
AfterMove(moved, move, piece, captured_piece) ==
    EndMove(
        UpdateClock(
            CastlingStep([moved EXCEPT !.en_passant_sq = NextEnPassant(move, piece)], piece),
            piece, captured_piece),
        move)

\* make_move, lines 666-732, for the piece found on the from square
MovePiece(b, move, piece) ==
    IF IsPromotion(b, move, piece) /\ move.promotion = None
        THEN Result(MovePromotion(b, move, piece), "AttributeError")
        ELSE Result(AfterMove(MovePieces(b, move, piece), move, piece,
                              CapturedPiece(b, move, piece)),
                    "ok")

\* make_move, lines 657-664, after _save
MoveFound(b, move, found) ==
    IF found = None THEN Result(b, "IllegalMove")
    ELSE IF Val(found).colour # b.turn THEN Result(b, "IllegalMove")
    ELSE MovePiece(b, move, Val(found))

\* the Board after _save, moved
MoveSaved(b, move) == MoveFound(b, move, piece_at(b, move.from_square))

\* Board.make_move: the board it leaves and the exception it raises, if any
make_move(b, move) == MoveSaved(save(b), move)

\* Board.unmake_move (history must not be empty: list.pop raises IndexError)
unmake_move(b) ==
    LET state == b.history[Len(b.history)]
    IN  LoadState(state, [b EXCEPT !.history = SubSeq(@, 1, Len(@) - 1)])

\* Board.make_safe_move
make_safe_move(b, move) ==
    LET moves == legal_moves(b)
    IN  IF \E i \in DOMAIN moves : MoveEq(moves[i], move)
            THEN make_move(b, move)
            ELSE Result(b, "IllegalMove")

\* the squares of a 64-bit constant written as its eight bytes, rank 1 first
SquaresOfRanks(bytes) ==
    {sq \in SQUARES : (bytes[Rank(sq) + 1] \div (2 ^ File(sq))) % 2 = 1}

\* BB_WHITE_SQUARES = 6172840429334713770 = 0x55AA55AA55AA55AA
BB_WHITE_SQUARES == SquaresOfRanks(<<170, 85, 170, 85, 170, 85, 170, 85>>)

\* BB_BLACK_SQUARES = 12273903644374837845 = 0xAA55AA55AA55AA55
BB_BLACK_SQUARES == SquaresOfRanks(<<85, 170, 85, 170, 85, 170, 85, 170>>)

\* Board.all_pawns, all_rooks, all_knights, all_bishops, all_queens, all_kings
all_pawns(b) == b.pawns[WHITE] \cup b.pawns[BLACK]
all_rooks(b) == b.rooks[WHITE] \cup b.rooks[BLACK]
all_knights(b) == b.knights[WHITE] \cup b.knights[BLACK]
all_bishops(b) == b.bishops[WHITE] \cup b.bishops[BLACK]
all_queens(b) == b.queens[WHITE] \cup b.queens[BLACK]
all_kings(b) == b.kings[WHITE] \cup b.kings[BLACK]

\* has_insufficient_material as it would be if a knight always made the
\* material insufficient once there are at most four pieces
has_insufficient_material_any_knight(b) ==
    IF b.occupied \cap (all_pawns(b) \cup all_rooks(b) \cup all_queens(b)) # {} THEN FALSE
    ELSE IF b.occupied = all_kings(b) THEN TRUE
    ELSE IF bit_count(b.occupied) > 4 THEN FALSE
    ELSE IF b.occupied \cap all_knights(b) # {} THEN TRUE
    ELSE IF b.occupied \cap all_bishops(b) # {} THEN
        IF bit_count(b.occupied) < 4 THEN TRUE
        ELSE /\ (all_bishops(b) \cap BB_WHITE_SQUARES = {}
                    \/ all_bishops(b) \cap BB_BLACK_SQUARES = {})
             /\ b.occupied = (all_bishops(b) \cup all_kings(b))
    ELSE FALSE

\* Board.has_insufficient_material; the None of a call that falls off the end
\* is FALSE
has_insufficient_material(b) ==
    IF b.occupied \cap (all_pawns(b) \cup all_rooks(b) \cup all_queens(b)) # {} THEN FALSE
    ELSE IF b.occupied = all_kings(b) THEN TRUE
    ELSE IF bit_count(b.occupied) > 4 THEN FALSE
    ELSE IF b.occupied \cap all_knights(b) # {} THEN bit_count(b.occupied) <= 3
    ELSE IF b.occupied \cap all_bishops(b) # {} THEN
        IF bit_count(b.occupied) < 4 THEN TRUE
        ELSE /\ (all_bishops(b) \cap BB_WHITE_SQUARES = {}
                    \/ all_bishops(b) \cap BB_BLACK_SQUARES = {})
             /\ b.occupied = (all_bishops(b) \cup all_kings(b))
    ELSE FALSE

\* Board.has_threefold_repetition
has_threefold_repetition(b) ==
    /\ b.track_repetitions
    /\ \E i \in DOMAIN b.repetitions :
        Cardinality({j \in 1 .. i : b.repetitions[j] = b.repetitions[i]}) >= 3

\* Board.is_in_check
is_in_check(b) == b.kings[b.turn] \cap attack_bitboard(b, ~b.turn, BB_EMPTY) # {}

\* Board.is_checkmate: is_in_check and not any(legal_moves)
is_checkmate(b) == is_in_check(b) /\ Len(legal_moves(b)) = 0

\* Board.is_stalemate: not is_in_check and not any(legal_moves)
is_stalemate(b) == ~is_in_check(b) /\ Len(legal_moves(b)) = 0

-----------------------------------------------------------------------------
(* FEN strings the boards are constructed from                              *)

STARTING_STATE ==
    <<"r","n","b","q","k","b","n","r","/","p","p","p","p","p","p","p","p","/",
      "8","/","8","/","8","/","8","/",
      "P","P","P","P","P","P","P","P","/","R","N","B","Q","K","B","N","R",
      " ","w"," ","K","Q","k","q"," ","-"," ","0"," ","1">>

\* the position of test_promotion
\*   rnbqr3/pppp2P1/3k1n1p/2p1p3/3b4/8/PPPPPP1P/RNBQKBNR w KQ - 0 1
FEN_PROMOTION ==
    <<"r","n","b","q","r","3","/","p","p","p","p","2","P","1","/","3","k","1","n","1","p",
      "/","2","p","1","p","3","/","3","b","4","/","8","/","P","P","P","P","P","P","1","P",
      "/","R","N","B","Q","K","B","N","R"," ","w"," ","K","Q"," ","-"," ","0"," ","1">>

\* Black has just played c7-c5: the pawns on b5 and c5 are all that stands between
\* the white king on a5 and the black rook on h5
\*   8/8/3p4/KPp4r/1R3p1k/8/4P1P1/8 w - c6 0 1
FEN_EN_PASSANT_PIN ==
    <<"8","/","8","/","3","p","4","/","K","P","p","4","r","/","1","R","3","p","1","k","/",
      "8","/","4","P","1","P","1","/","8"," ","w"," ","-"," ","c","6"," ","0"," ","1">>

\* both sides may castle on either side
\*   r3k2r/8/8/8/8/8/8/R3K2R w KQkq - 0 1
FEN_CASTLING ==
    <<"r","3","k","2","r","/","8","/","8","/","8","/","8","/","8","/","8","/","R","3","K",
      "2","R"," ","w"," ","K","Q","k","q"," ","-"," ","0"," ","1">>

\* the white king's rook has left h1, so White may no longer castle
\*   4k3/8/8/8/8/8/7R/4K3 w - - 0 1
FEN_ROOK_OFF_HOME ==
    <<"4","k","3","/","8","/","8","/","8","/","8","/","8","/","7","R","/","4","K","3"," ",
      "w"," ","-"," ","-"," ","0"," ","1">>

\* a FEN with the piece placement field only
\*   4k3/8/8/8/8/8/8/R3K2R
FEN_PLACEMENT_ONLY ==
    <<"4","k","3","/","8","/","8","/","8","/","8","/","8","/","8","/","R","3","K","2",
      "R">>

\* a FEN that ends after the side to move
\*   4k2r/8/8/8/8/8/8/4K3 b
FEN_TWO_FIELDS ==
    <<"4","k","2","r","/","8","/","8","/","8","/","8","/","8","/","8","/","4","K","3"," ",
      "b">>

\* a FEN without the fullmove counter
\*   4k3/7p/8/8/8/8/8/4K3 b - - 3
FEN_FIVE_FIELDS ==
    <<"4","k","3","/","7","p","/","8","/","8","/","8","/","8","/","8","/","4","K","3"," ",
      "b"," ","-"," ","-"," ","3">>

\* a black pawn that can promote on b1, or on a1 by taking the rook White may
\* castle with
\*   4k3/8/8/8/8/8/1p6/R3K3 b Q - 0 1
FEN_ROOK_TAKEN ==
    <<"4","k","3","/","8","/","8","/","8","/","8","/","8","/","1","p","6","/","R","3","K",
      "3"," ","b"," ","Q"," ","-"," ","0"," ","1">>

-----------------------------------------------------------------------------
(* Legal play: boards constructed from FEN strings, on which moves taken     *)
(* from legal_moves are made and unmade                                      *)

\* the FEN strings the boards are constructed from
Fens ==
    {STARTING_STATE, FEN_PROMOTION, FEN_EN_PASSANT_PIN, FEN_CASTLING, FEN_ROOK_OFF_HOME,
     FEN_PLACEMENT_ONLY, FEN_TWO_FIELDS, FEN_FIVE_FIELDS, FEN_ROOK_TAKEN}

\* the longest line of play explored: the most snapshots held in _history
MaxPly == 2

\* board = Board(f, t)
Construct(f, t) ==
    /\ board = NewBoard(f, t)
    /\ fen_in = f
    /\ op = "Board"
    /\ err = "ok"

\* no traversal of the move tree is running and no search has returned
NoTraversal == pc = "idle" /\ depth = 0 /\ frames = <<>> /\ counter = 0 /\ best_move = <<>>

\* and no command has been read and no move string parsed
Idle ==
    /\ NoTraversal
    /\ cmd = <<>> /\ stdout = <<>> /\ uci_in = <<>> /\ parsed = <<>>
    /\ game = <<>> /\ ret = <<>> /\ pool = <<>>

Init == \E f \in Fens, t \in BOOLEAN : Construct(f, t) /\ Idle

\* board.make_move(m) for a move m yielded by board.legal_moves
MakeLegalMove ==
    /\ Len(board.history) < MaxPly
    /\ LET moves == legal_moves(board)
       IN  \E i \in DOMAIN moves :
            LET r == make_move(board, moves[i])
            IN  board' = r.board /\ err' = r.err
    /\ op' = "make_move"
    /\ UNCHANGED <<fen_in, pc, depth, frames, counter, best_move, cmd, stdout, uci_in, parsed, game, ret, pool>>

\* board.unmake_move()
UnmakeMove ==
    /\ Len(board.history) > 0
    /\ board' = unmake_move(board)
    /\ op' = "unmake_move"
    /\ err' = "ok"
    /\ UNCHANGED <<fen_in, pc, depth, frames, counter, best_move, cmd, stdout, uci_in, parsed, game, ret, pool>>

Next == MakeLegalMove \/ UnmakeMove

Spec == Init /\ [][Next]_vars

-----------------------------------------------------------------------------
(* Claims about legal play                                                   *)

\* the board after as many unmake_move calls as there are snapshots in _history
RECURSIVE UnmakeAll(_)
UnmakeAll(b) == IF Len(b.history) = 0 THEN b ELSE UnmakeAll(unmake_move(b))

\* C1: whenever make_move accepts a move, an unmake_move() right after it gives
\* back the board as it was before the move, equal in every field; and n
\* accepted moves followed by n unmake_move calls give back the board the play
\* started from.
C1_MakeUnmakeRestores ==
    [][op' = "make_move" /\ err' = "ok"
        => /\ unmake_move(board') = board
           /\ UnmakeAll(board') = NewBoard(fen_in, board.track_repetitions)]_vars

\* two moves have been made, the second of them a move that changed the castling
\* rights, on a board that records repetitions
C1_Witness ==
    /\ op = "make_move" /\ err = "ok"
    /\ Len(board.history) = 2
    /\ board.castling_rights # board.history[2].castling_rights
    /\ board.repetitions # <<>>

\* C2: after a move yielded by legal_moves has been made, no piece of the side
\* now to move attacks the king of the side that has just moved.
C2_MoverKingNotAttacked ==
    op = "make_move" /\ err = "ok"
        => board.kings[~board.turn] \cap attack_bitboard(board, board.turn, BB_EMPTY) = {}

\* a pawn has just been taken en passant
C2_Witness ==
    /\ op = "make_move" /\ err = "ok"
    /\ Len(board.history) > 0
    /\ LET before == board.history[Len(board.history)]
           move == board.move_history[Len(board.move_history)]
       IN  /\ before.en_passant_sq = Some(move.to_square)
           /\ move.from_square \in before.w_pawns \cup before.b_pawns

\* C6: a Board constructed from the fen of a position reached in legal play
\* equals that position in piece placement, side to move, castling rights,
\* en-passant square, halfmove clock and fullmove counter, and its castling
\* rights are those the castling field of the FEN string names.
C6_FenRoundTrip ==
    LET p == NewBoard(fen(board), board.track_repetitions)
    IN  /\ p.pawns = board.pawns /\ p.knights = board.knights /\ p.bishops = board.bishops
        /\ p.rooks = board.rooks /\ p.queens = board.queens /\ p.kings = board.kings
        /\ p.turn = board.turn
        /\ p.castling_rights = board.castling_rights
        /\ p.en_passant_sq = board.en_passant_sq
        /\ p.halfmove_clock = board.halfmove_clock
        /\ p.fullmoves = board.fullmoves
        /\ castle_flags(p) = Split(fen(board))[3]

\* a rook back on its original square after the castling right on its side was lost
C6_Witness ==
    /\ op = "make_move" /\ err = "ok"
    /\ \E c \in Colours :
        /\ E1 \in board.kings[WHITE] /\ E8 \in board.kings[BLACK]
        /\ (BB_ORIGINAL_ROOKS[c] \cap board.rooks[c]) \ board.castling_rights[c] # {}

\* C7: a Board constructed from a FEN string that omits trailing fields has the
\* defaults: White to move, no castling rights, no en-passant square, halfmove
\* clock 0, fullmove counter 1.
C7_FenDefaults ==
    op = "Board" =>
        LET n == Len(Split(fen_in))
        IN  /\ n < 2 => board.turn = WHITE
            /\ n < 3 => board.castling_rights = ColourMap(BB_EMPTY, BB_EMPTY)
            /\ n < 4 => board.en_passant_sq = None
            /\ n < 5 => board.halfmove_clock = 0
            /\ n < 6 => board.fullmoves = 1

\* a Board just constructed from a FEN string with the piece placement field only
C7_Witness == op = "Board" /\ Len(Split(fen_in)) = 1

\* C8: in every position reached by moves taken from legal_moves each side has
\* exactly one king.
C8_OneKingEach ==
    \A c \in Colours : bit_count(board.kings[c]) = 1

\* a piece has just been captured
C8_Witness ==
    /\ op = "make_move" /\ err = "ok"
    /\ Len(board.history) > 0
    /\ bit_count(board.occupied) < bit_count(board.history[Len(board.history)].occupied)

\* the castling rights of colour c are original rook squares of c, and there are
\* none when the king of c is off its home square
CastlingRightsSound(b, c) ==
    /\ b.castling_rights[c] \subseteq BB_ORIGINAL_ROOKS[c]
    /\ (IF c = WHITE THEN E1 ELSE E8) \notin b.kings[c] => b.castling_rights[c] = BB_EMPTY

\* C10: the castling rights of each colour are among its two original rook
\* squares and are empty when its king is off its home square; and no move made
\* gives a colour a castling right it did not have before the move.
C10_CastlingRights ==
    /\ [](\A c \in Colours : CastlingRightsSound(board, c))
    /\ [][op' = "make_move"
            => \A c \in Colours : board'.castling_rights[c] \subseteq board.castling_rights[c]]_vars

\* a king has left its home square, and with that move lost castling rights
C10_Witness ==
    /\ op = "make_move" /\ err = "ok"
    /\ Len(board.history) > 0
    /\ \E c \in Colours :
        /\ board.history[Len(board.history)].castling_rights[c] # BB_EMPTY
        /\ board.castling_rights[c] = BB_EMPTY
        /\ (IF c = WHITE THEN E1 ELSE E8) \notin board.kings[c]

\* the last move made, and whether the piece it moved, found on the board
\* before the move, is a pawn that advances two ranks
LastMove(b) == b.move_history[Len(b.move_history)]

IsDoubleAdvance(b, move) ==
    /\ piece_at(b, move.from_square) # None
    /\ Val(piece_at(b, move.from_square)).type = PAWN
    /\ Abs(Rank(move.to_square) - Rank(move.from_square)) = 2

\* the en-passant square is None, or lies on rank 3 or 6 directly behind a
\* pawn of the side that just moved
EnPassantBehindPawn(b) ==
    b.en_passant_sq # None =>
        LET sq == Val(b.en_passant_sq)
        IN  IF b.turn = BLACK
                THEN Rank(sq) = 2 /\ (sq + 8) \in b.pawns[WHITE]
                ELSE Rank(sq) = 5 /\ (sq - 8) \in b.pawns[BLACK]

\* C11: after every make_move, en_passant_sq is set exactly when the move was
\* a pawn advance of two ranks, and is then the square the pawn jumped over;
\* after every other move it is None.  So in every position of legal play it
\* is None or a square on rank 3 or 6 directly behind a pawn of the side that
\* just moved.
C11_EnPassantSquare ==
    /\ [](EnPassantBehindPawn(board))
    /\ [][op' = "make_move" /\ err' = "ok" =>
            board'.en_passant_sq =
                IF IsDoubleAdvance(board, LastMove(board'))
                    THEN Some((LastMove(board').from_square + LastMove(board').to_square) \div 2)
                    ELSE None]_vars

\* a pawn has just advanced two ranks and the en-passant square is set
C11_Witness ==
    /\ op = "make_move" /\ err = "ok"
    /\ board.en_passant_sq # None
    /\ Abs(Rank(LastMove(board).to_square) - Rank(LastMove(board).from_square)) = 2

\* the rank a pawn of the colour promotes on
BackRank(colour) == IF colour = WHITE THEN 7 ELSE 0

\* whether the move takes a pawn of the side to move to its promotion rank
IsPromotionPair(b, move) ==
    move.from_square \in b.pawns[b.turn] /\ Rank(move.to_square) = BackRank(b.turn)

\* the promotion kinds of the moves yielded for the from/to pair of a move, in
\* the order they are yielded
PromotionsYielded(moves, move) ==
    LET same == SelectSeq(moves, LAMBDA m : MoveEq(m, move))
    IN  [i \in DOMAIN same |-> same[i].promotion]

\* for every from/to pair of the moves that takes a pawn to its promotion rank,
\* exactly four moves are yielded, one for each kind of PromotionKinds
PromotionsComplete(b, moves) ==
    \A i \in DOMAIN moves :
        IsPromotionPair(b, moves[i]) =>
            PromotionsYielded(moves, moves[i]) = [k \in 1 .. 4 |-> Some(PromotionKinds[k])]

NoPawnOnBackRanks(b) ==
    \A c \in Colours : \A sq \in b.pawns[c] : Rank(sq) \notin {0, 7}

\* what make_move of the promotion move leaves of board b on b2
Promoted(b, b2, move) ==
    /\ piece_at(b2, move.to_square) = Some(Piece(Val(move.promotion), b.turn))
    /\ b2.occupied = (b.occupied \ {move.from_square}) \cup {move.to_square}
    /\ b2.occupied_colour[b.turn] = (b.occupied_colour[b.turn] \ {move.from_square})
                                        \cup {move.to_square}
    /\ b2.occupied_colour[~b.turn] = b.occupied_colour[~b.turn] \ {move.to_square}
    /\ b2.pawns[b.turn] = b.pawns[b.turn] \ {move.from_square}

CastleSquare(rook_sq) == IF File(rook_sq) = 0 THEN rook_sq + 2 ELSE rook_sq - 1

\* whether moves holds the castling move towards the rook square
CastlingYielded(moves, rook_sq) ==
    \E i \in DOMAIN moves : moves[i].is_castling /\ moves[i].to_square = CastleSquare(rook_sq)

\* the conditions of castling towards the rook square for the side to move,
\* whose king stands on king_pos, the opponent attacking the squares attacked
CastlingAllowed(b, king_pos, attacked, rook_sq) ==
    /\ rook_sq \in b.castling_rights[b.turn]
    /\ \A sq \in SQUARES :
        ((king_pos < sq /\ sq < rook_sq) \/ (rook_sq < sq /\ sq < king_pos))
            => sq \notin b.occupied
    /\ king_pos \notin attacked
    /\ ((king_pos + CastleSquare(rook_sq)) \div 2) \notin attacked
    /\ CastleSquare(rook_sq) \notin attacked

\* the b-file square next to the queenside rook of the colour
KnightSquare(colour) == IF colour = WHITE THEN A1 + 1 ELSE A8 + 1

\* C13: legal_moves yields the castling move of the side to move towards an
\* original rook square exactly when that square is in its castling rights,
\* the squares between king and rook are empty, the king is not in check and
\* neither the square the king crosses nor the one it goes to is attacked; an
\* attack on the b-file square is not among the conditions.
C13_CastlingLegal ==
    \A rook_sq \in BB_ORIGINAL_ROOKS[board.turn] :
        CastlingYielded(legal_moves(board), rook_sq)
            <=> CastlingAllowed(board, msb(board.kings[board.turn]),
                                attack_bitboard(board, ~board.turn, BB_EMPTY), rook_sq)

\* the side to move may castle queenside although the b-file square next to
\* its rook is attacked
C13_Witness ==
    /\ KnightSquare(board.turn) \in attack_bitboard(board, ~board.turn, BB_EMPTY)
    /\ CastlingYielded(legal_moves(board), IF board.turn = WHITE THEN A1 ELSE A8)

\* the original square of the rook a castling move castles with
CastlingRookSquare(move) ==
    file_rank_to_index(IF File(move.to_square) < File(move.from_square) THEN 0 ELSE 7,
                       Rank(move.to_square))

\* what the castling move of the side to move of board b is to leave on b2
Castled(b, b2, move) ==
    LET c == b.turn
        crossed == (move.from_square + move.to_square) \div 2
        rook_sq == CastlingRookSquare(move)
    IN  /\ b2.kings[c] = {move.to_square}
        /\ File(move.to_square) \in {2, 6}
        /\ Rank(move.to_square) = (IF c = WHITE THEN 0 ELSE 7)
        /\ b2.rooks[c] = (b.rooks[c] \ {rook_sq}) \cup {crossed}
        /\ crossed \in b2.rooks[c]
        /\ move.from_square \notin b2.occupied
        /\ rook_sq \notin b2.occupied
        /\ b2.castling_rights[c] = BB_EMPTY
        /\ b2.castling_rights[~c] = b.castling_rights[~c]
        /\ b2.pawns = b.pawns /\ b2.knights = b.knights
        /\ b2.bishops = b.bishops /\ b2.queens = b.queens
        /\ b2.rooks[~c] = b.rooks[~c] /\ b2.kings[~c] = b.kings[~c]

\* C14: after make_move of a castling move yielded by legal_moves, the king
\* stands on the g- or c-file of its home rank, the castling rook on the
\* square the king crossed, their original squares are empty, the mover has
\* no castling rights, and the opponent's castling rights and every other
\* piece are as before.
C14_CastlingEffect ==
    [][(op' = "make_move" /\ err' = "ok" /\ LastMove(board').is_castling)
        => Castled(board, board', LastMove(board'))]_vars

\* a castling move has been made
C14_Witness ==
    /\ op = "make_move" /\ err = "ok"
    /\ LastMove(board).is_castling

\* whether the move, made on board b, moves a pawn or captures a piece, an
\* en-passant capture included
IsPawnMoveOrCapture(b, move) ==
    \/ move.from_square \in (b.pawns[WHITE] \cup b.pawns[BLACK])
    \/ move.to_square \in b.occupied

\* C15: every successful make_move flips turn, increments fullmoves by one
\* exactly when Black made the move, and sets halfmove_clock to 0 when a pawn
\* moved or a piece was captured and to its previous value plus one otherwise;
\* halfmove_clock is never negative.
C15_TurnAndClocks ==
    /\ [](board.halfmove_clock >= 0)
    /\ [][op' = "make_move" /\ err' = "ok" =>
            /\ board'.turn = ~board.turn
            /\ board'.fullmoves = board.fullmoves + (IF board.turn = BLACK THEN 1 ELSE 0)
            /\ board'.halfmove_clock =
                    IF IsPawnMoveOrCapture(board, LastMove(board')) THEN 0
                    ELSE board.halfmove_clock + 1]_vars

\* Black has made a move that is neither a pawn move nor a capture, after a
\* move of White that reset the clock
C15_Witness ==
    /\ op = "make_move" /\ err = "ok"
    /\ board.turn = WHITE
    /\ Len(board.history) = 2
    /\ board.history[2].halfmove_clock = 0
    /\ board.halfmove_clock = 1
    /\ board.fullmoves = board.history[2].fullmoves + 1

-----------------------------------------------------------------------------
(* traverse_moves: the walk of the move tree that counts its leaves.  Each  *)
(* frame is one running `for move in board.legal_moves` loop: the moves the *)
(* loop goes through and the index of the next one.  Every iteration finds  *)
(* the board as the loop's first iteration found it, unmake_move having     *)
(* restored it, so the moves are those of the board the loop started on.    *)

\* the depths test_perft traverses to, and the leaves it expects at each
PerftDepths == {1, 2, 3}
PerftExpected == <<20, 400, 8902>>

Frame(b) == [moves |-> legal_moves(b), i |-> 1]

InitPerft == Construct(STARTING_STATE, FALSE) /\ Idle

\* traverse_moves(board, d): counter = 0, and the loop over legal_moves starts
TraverseMoves ==
    /\ pc = "idle"
    /\ \E d \in PerftDepths : depth' = d
    /\ counter' = 0
    /\ frames' = <<Frame(board)>>
    /\ pc' = "loop"
    /\ UNCHANGED <<board, op, err, fen_in, best_move, cmd, stdout, uci_in, parsed, game, ret, pool>>

\* board.push(move) for the next move of the innermost loop, and the call
\* _traverse_moves(board, depth - 1, counter) up to its loop or, at depth 0,
\* through `counter += 1; return counter`
Push ==
    /\ pc = "loop"
    /\ LET top == frames[Len(frames)]
       IN  /\ top.i <= Len(top.moves)
           /\ LET r == make_move(board, top.moves[top.i])
              IN  /\ board' = r.board
                  /\ err' = r.err
                  /\ IF depth - Len(frames) = 0
                        THEN /\ counter' = counter + 1
                             /\ frames' = frames
                             /\ pc' = "pop"
                        ELSE /\ counter' = counter
                             /\ frames' = Append(frames, Frame(r.board))
                             /\ pc' = "loop"
    /\ op' = "make_move"
    /\ UNCHANGED <<fen_in, depth, best_move, cmd, stdout, uci_in, parsed, game, ret, pool>>

\* board.pop() after the call returned, and on to the loop's next move
Pop ==
    /\ pc = "pop"
    /\ board' = unmake_move(board)
    /\ frames' = [frames EXCEPT ![Len(frames)].i = @ + 1]
    /\ pc' = "loop"
    /\ op' = "unmake_move"
    /\ err' = "ok"
    /\ UNCHANGED <<fen_in, depth, counter, best_move, cmd, stdout, uci_in, parsed, game, ret, pool>>

\* the loop of an inner _traverse_moves is exhausted: return counter
ReturnCounter ==
    /\ pc = "loop"
    /\ Len(frames) > 1
    /\ frames[Len(frames)].i > Len(frames[Len(frames)].moves)
    /\ frames' = SubSeq(frames, 1, Len(frames) - 1)
    /\ pc' = "pop"
    /\ UNCHANGED <<board, op, err, fen_in, depth, counter, best_move, cmd, stdout, uci_in, parsed, game, ret, pool>>

\* the loop of traverse_moves is exhausted: it returns counter
Finish ==
    /\ pc = "loop"
    /\ Len(frames) = 1
    /\ frames[1].i > Len(frames[1].moves)
    /\ pc' = "done"
    /\ UNCHANGED <<board, op, err, fen_in, depth, frames, counter, best_move, cmd, stdout, uci_in, parsed, game, ret, pool>>

\* test_perft goes on to its next call of traverse_moves
NextCall ==
    /\ pc = "done"
    /\ pc' = "idle"
    /\ depth' = 0
    /\ frames' = <<>>
    /\ counter' = 0
    /\ UNCHANGED <<board, op, err, fen_in, best_move, cmd, stdout, uci_in, parsed, game, ret, pool>>

NextPerft == TraverseMoves \/ Push \/ Pop \/ ReturnCounter \/ Finish \/ NextCall

SpecPerft == InitPerft /\ [][NextPerft]_vars

\* C3: traverse_moves from the standard initial position returns 20 at depth 1,
\* 400 at depth 2 and 8902 at depth 3.
C3_PerftCounts == pc = "done" => counter = PerftExpected[depth]

\* traverse_moves has returned from a traversal to depth 3
C3_Witness == pc = "done" /\ depth = 3

-----------------------------------------------------------------------------
(* Unchecked use of the Board: make_move with moves given as UCI strings,   *)
(* legal or not, place_piece, remove_piece and unmake_move                  *)

\* Move.from_uci
from_uci(uci) ==
    LET from_sq == file_rank_to_index(char_to_file(uci[1]), ParseInt(<<uci[2]>>) - 1)
        to_sq == file_rank_to_index(char_to_file(uci[3]), ParseInt(<<uci[4]>>) - 1)
    IN  Move(from_sq, to_sq, FALSE, IF Len(uci) > 4 THEN Some(uci[5]) ELSE None)

\* the moves of test_make_basic_moves (c2c3, then b2b3 out of turn, then g8f6);
\* a move from a square that is empty in every position played from; the
\* promotion of test_promotion with and without the piece to promote to; a
\* king moved two files; the en-passant capture of FEN_EN_PASSANT_PIN
RawUcis ==
    {<<"c","2","c","3">>, <<"b","2","b","3">>, <<"g","8","f","6">>, <<"e","4","e","5">>,
     <<"g","7","g","8">>, <<"g","7","g","8","q">>, <<"e","1","g","1">>, <<"b","5","c","6">>}

RawFens == {STARTING_STATE, FEN_PROMOTION, FEN_EN_PASSANT_PIN}

\* the square pieces are placed on and removed from (a pawn stands on it in two
\* of the positions, it is empty in the third), and the kinds placed
G7 == file_rank_to_index(6, 6)
RawSquares == {G7}
RawPieceTypes == {PAWN, QUEEN}

InitRaw == \E f \in RawFens : Construct(f, FALSE) /\ Idle

\* board.make_move(uci), whether the move is legal or not, accepted or not
MakeMove ==
    /\ Len(board.history) < MaxPly
    /\ \E uci \in RawUcis :
        LET r == make_move(board, from_uci(uci))
        IN  board' = r.board /\ err' = r.err
    /\ op' = "make_move"
    /\ UNCHANGED <<fen_in, pc, depth, frames, counter, best_move, cmd, stdout, uci_in, parsed, game, ret, pool>>

\* board.place_piece(square, piece_type, colour)
PlacePiece ==
    /\ \E square \in RawSquares, piece_type \in RawPieceTypes, colour \in Colours :
        board' = place_piece(board, square, Some(piece_type), colour)
    /\ op' = "place_piece"
    /\ err' = "ok"
    /\ UNCHANGED <<fen_in, pc, depth, frames, counter, best_move, cmd, stdout, uci_in, parsed, game, ret, pool>>

\* board.remove_piece(square)
RemovePiece ==
    /\ \E square \in RawSquares : board' = remove_piece(board, square)
    /\ op' = "remove_piece"
    /\ err' = "ok"
    /\ UNCHANGED <<fen_in, pc, depth, frames, counter, best_move, cmd, stdout, uci_in, parsed, game, ret, pool>>

NextRaw == MakeMove \/ PlacePiece \/ RemovePiece \/ UnmakeMove

SpecRaw == InitRaw /\ [][NextRaw]_vars

\* C4: a make_move that raises IllegalMove, its from-square being empty or
\* holding a piece of the side not to move, leaves every field of the Board,
\* the snapshot history among them, as it was before the call.
C4_RejectedMoveChangesNothing ==
    [][op' = "make_move" /\ err' = "IllegalMove" => board' = board]_vars

\* make_move has raised IllegalMove after a move was made
C4_Witness ==
    /\ op = "make_move" /\ err = "IllegalMove"
    /\ board.move_history # <<>>

\* the union of the six piece bitboards of colour c
PiecesOf(b, c) ==
    b.pawns[c] \cup b.knights[c] \cup b.bishops[c] \cup b.rooks[c] \cup b.queens[c]
        \cup b.kings[c]

\* the twelve piece bitboards of b, as a sequence
PieceBitboards(b) ==
    <<b.pawns[WHITE], b.knights[WHITE], b.bishops[WHITE], b.rooks[WHITE], b.queens[WHITE],
      b.kings[WHITE], b.pawns[BLACK], b.knights[BLACK], b.bishops[BLACK], b.rooks[BLACK],
      b.queens[BLACK], b.kings[BLACK]>>

\* C9: after any sequence of place_piece, remove_piece, make_move and
\* unmake_move calls the twelve piece bitboards are pairwise disjoint,
\* occupied_colour[c] is the union of the six bitboards of colour c, the two
\* occupied_colour sets are disjoint and occupied is their union.
C9_BitboardsConsistent ==
    /\ \A i, j \in 1 .. 12 :
        i # j => PieceBitboards(board)[i] \cap PieceBitboards(board)[j] = {}
    /\ \A c \in Colours : board.occupied_colour[c] = PiecesOf(board, c)
    /\ board.occupied_colour[WHITE] \cap board.occupied_colour[BLACK] = {}
    /\ board.occupied = board.occupied_colour[WHITE] \cup board.occupied_colour[BLACK]

\* a piece has just been placed on a square that held a piece of the other
\* kind and colour when the last move was made
C9_Witness ==
    /\ op = "place_piece"
    /\ board.history # <<>>
    /\ G7 \in board.queens[BLACK]
    /\ G7 \in board.history[Len(board.history)].w_pawns

-----------------------------------------------------------------------------
(* Checked play: make_safe_move with moves that are legal and moves that    *)
(* are not                                                                  *)

\* the moves make_safe_move is called with: those of legal_moves and those of
\* the UCI strings above
SafeMoves(b) ==
    LET moves == legal_moves(b)
    IN  {moves[i] : i \in DOMAIN moves} \cup {from_uci(uci) : uci \in RawUcis}

\* board.make_safe_move(m)
MakeSafeMove ==
    /\ Len(board.history) < MaxPly
    /\ \E m \in SafeMoves(board) :
        LET r == make_safe_move(board, m)
        IN  board' = r.board /\ err' = r.err
    /\ op' = "make_safe_move"
    /\ UNCHANGED <<fen_in, pc, depth, frames, counter, best_move, cmd, stdout, uci_in, parsed, game, ret, pool>>

NextSafe == MakeSafeMove \/ UnmakeMove

SpecSafe == InitRaw /\ [][NextSafe]_vars

\* C5: make_safe_move either raises IllegalMove and leaves every field of the
\* Board unchanged, or makes a move of legal_moves completely; it never leaves
\* the board partially updated.
C5_SafeMoveAllOrNothing ==
    [][op' = "make_safe_move"
        => \/ err' = "IllegalMove" /\ board' = board
           \/ /\ err' = "ok"
              /\ LET moves == legal_moves(board)
                 IN  \E i \in DOMAIN moves : board' = make_move(board, moves[i]).board]_vars

\* make_safe_move was called with the squares of a promotion but no piece to
\* promote to, and ended in an error other than IllegalMove
C5_Witness ==
    /\ op = "make_safe_move"
    /\ err = "AttributeError"

-----------------------------------------------------------------------------
(* A game with repetition tracking: from the initial position the knights    *)
(* move out and back, as the queen and rook do in test_threefold_repetition  *)

\* the moves played: each side moves a knight out or back
RepUcis ==
    {<<"g","1","f","3">>, <<"f","3","g","1">>, <<"b","1","c","3">>, <<"c","3","b","1">>,
     <<"g","8","f","6">>, <<"f","6","g","8">>, <<"b","8","c","6">>, <<"c","6","b","8">>}

\* the longest game played
MaxRepPly == 8

InitRep == Construct(STARTING_STATE, TRUE) /\ Idle

\* the moves of legal_moves that are among RepUcis
RepMoves(moves) ==
    {moves[i] : i \in {j \in DOMAIN moves : \E uci \in RepUcis : moves[j] = from_uci(uci)}}

\* the board a make_move that returns leaves
Made(r) == board' = r.board /\ err' = r.err

\* board.make_move(m) for a move m of legal_moves that is one of RepUcis
MakeRepMove ==
    /\ Len(board.history) < MaxRepPly
    /\ \E m \in RepMoves(legal_moves(board)) : Made(make_move(board, m))
    /\ op' = "make_move"
    /\ UNCHANGED <<fen_in, pc, depth, frames, counter, best_move, cmd, stdout, uci_in, parsed, game, ret, pool>>

NextRep == MakeRepMove \/ UnmakeMove

SpecRep == InitRep /\ [][NextRep]_vars

\* a position as the rule of repetition compares it: piece placement, side to
\* move, castling rights and en-passant square
PositionOf(b) ==
    <<b.pawns, b.rooks, b.knights, b.bishops, b.queens, b.kings,
      b.turn, b.castling_rights, b.en_passant_sq>>

\* the positions of the game: the one the game started from and the one after
\* every move.  The snapshots of _history are the positions before each move.
GamePositions(b) ==
    [k \in 1 .. Len(b.history) + 1 |->
        IF k <= Len(b.history) THEN PositionOf(LoadState(b.history[k], b))
        ELSE PositionOf(b)]

\* some position of the game has occurred three times
OccursThrice(positions) ==
    \E k \in DOMAIN positions :
        Cardinality({j \in DOMAIN positions : positions[j] = positions[k]}) >= 3

\* C16: with repetition tracking enabled, has_threefold_repetition is true
\* exactly when some position (piece placement, side to move, castling rights,
\* en-passant square) has occurred three times among the initial position and
\* the positions after every move of the game.
C16_ThreefoldRepetition ==
    board.track_repetitions =>
        (has_threefold_repetition(board) <=> OccursThrice(GamePositions(board)))

\* a position has occurred three times
C16_Witness == OccursThrice(GamePositions(board))

-----------------------------------------------------------------------------
(* Material: pieces placed on and removed from a board that holds the two    *)
(* kings, as the positions of test_insufficient_material                     *)

\* the kings of test_insufficient_material's bishop positions
\*   8/8/8/8/1k6/8/3K4/8 w - - 0 1
FEN_KINGS ==
    <<"8","/","8","/","8","/","8","/","1","k","6","/","8","/","3","K","4","/","8"," ",
      "w"," ","-"," ","-"," ","0"," ","1">>

\* d6, e3 and c3 are squares of one colour, e6 is of the other
MaterialSquares ==
    {file_rank_to_index(3, 5), file_rank_to_index(4, 5), file_rank_to_index(4, 2),
     file_rank_to_index(2, 2)}

MaterialKinds == {PAWN, KNIGHT, BISHOP, ROOK, QUEEN}

InitMaterial == Construct(FEN_KINGS, FALSE) /\ Idle

\* board.place_piece(square, piece_type, colour)
PlaceMaterial ==
    /\ \E square \in MaterialSquares, piece_type \in MaterialKinds, colour \in Colours :
        board' = place_piece(board, square, Some(piece_type), colour)
    /\ op' = "place_piece"
    /\ err' = "ok"
    /\ UNCHANGED <<fen_in, pc, depth, frames, counter, best_move, cmd, stdout, uci_in, parsed, game, ret, pool>>

\* board.remove_piece(square)
RemoveMaterial ==
    /\ \E square \in MaterialSquares : board' = remove_piece(board, square)
    /\ op' = "remove_piece"
    /\ err' = "ok"
    /\ UNCHANGED <<fen_in, pc, depth, frames, counter, best_move, cmd, stdout, uci_in, parsed, game, ret, pool>>

NextMaterial == PlaceMaterial \/ RemoveMaterial

SpecMaterial == InitMaterial /\ [][NextMaterial]_vars

\* the squares of the colour of a1, by the parity of file plus rank
DarkSquares == {sq \in SQUARES : (File(sq) + Rank(sq)) % 2 = 0}

\* the decision list, applied in order
InsufficientByList(b) ==
    LET pieces == Cardinality(b.occupied)
        knights == all_knights(b)
        bishops == all_bishops(b)
    IN  IF all_pawns(b) \cup all_rooks(b) \cup all_queens(b) # {} THEN FALSE
        ELSE IF knights = {} /\ bishops = {} THEN TRUE
        ELSE IF pieces >= 5 THEN FALSE
        ELSE IF pieces = 3 /\ Cardinality(knights) = 1 THEN TRUE
        ELSE IF knights # {} THEN FALSE
        ELSE bishops \subseteq DarkSquares \/ bishops \cap DarkSquares = {}

\* C17: has_insufficient_material is the result of the decision list: a pawn,
\* rook or queen gives sufficient; king against king insufficient; five or
\* more pieces sufficient; king and one knight against king insufficient, any
\* knight with four pieces sufficient; only bishops and kings with all bishops
\* on squares of one colour insufficient; otherwise sufficient.
C17_InsufficientMaterial ==
    has_insufficient_material(board) = InsufficientByList(board)

\* two bishops on squares of one colour, a king each and nothing else
C17_Witness ==
    /\ Cardinality(all_bishops(board)) = 2
    /\ board.occupied = all_bishops(board) \cup all_kings(board)
    /\ all_bishops(board) \subseteq DarkSquares
    /\ has_insufficient_material(board)

-----------------------------------------------------------------------------
(* Status: checkmate and stalemate in positions reached by legal_moves       *)

\* test_checkmate:  3q1bRk/5p2/5N1p/8/8/8/2r2PPP/6K1 b - - 0 1
FEN_CHECKMATE ==
    <<"3","q","1","b","R","k","/","5","p","2","/","5","N","1","p","/","8","/","8","/",
      "8","/","2","r","2","P","P","P","/","6","K","1"," ","b"," ","-"," ","-"," ","0",
      " ","1">>

\* test_stalemate:  5k2/5P2/5K2/8/8/8/8/8 b - - 0 1
FEN_STALEMATE ==
    <<"5","k","2","/","5","P","2","/","5","K","2","/","8","/","8","/","8","/","8","/",
      "8"," ","b"," ","-"," ","-"," ","0"," ","1">>

\* after c7c5 the only move legal_moves yields for White is the capture en
\* passant b5c6, which uncovers the rook on h5:  7k/ppp5/1n6/KP5r/8/8/8/8 b - - 0 1
FEN_PINNED_EN_PASSANT ==
    <<"7","k","/","p","p","p","5","/","1","n","6","/","K","P","5","r","/","8","/","8",
      "/","8","/","8"," ","b"," ","-"," ","-"," ","0"," ","1">>

\* after d7d5 the pawn checks the king on e4 and can only be taken en passant:
\*   3q3k/3p4/4n1p1/4P3/4K3/r7/8/8 b - - 0 1
FEN_CHECKING_PAWN ==
    <<"3","q","3","k","/","3","p","4","/","4","n","1","p","1","/","4","P","3","/","4",
      "K","3","/","r","7","/","8","/","8"," ","b"," ","-"," ","-"," ","0"," ","1">>

StatusFens == {FEN_CHECKMATE, FEN_STALEMATE, FEN_PINNED_EN_PASSANT, FEN_CHECKING_PAWN}

InitStatus == \E f \in StatusFens : Construct(f, FALSE) /\ Idle

SpecStatus == InitStatus /\ [][Next]_vars

\* the king of a colour stands on a square the other colour attacks
KingAttacked(b, colour) ==
    b.kings[colour] \cap attack_bitboard(b, ~colour, BB_EMPTY) # {}

\* the move was made and the mover's king is not attacked after it
Escapes(r, colour) == r.err = "ok" /\ ~KingAttacked(r.board, colour)

\* some move of the pieces, castling aside, leaves the mover's king not
\* attacked (when castling is allowed, so is the king's step beside it)
EscapeAmong(b, moves) ==
    \E i \in DOMAIN moves :
        ~moves[i].is_castling /\ Escapes(make_move(b, moves[i]), b.turn)

HasRuleMove(b) == EscapeAmong(b, pseudo_legal_moves(b, b.turn))

OneKingEach(b) ==
    Cardinality(b.kings[WHITE]) = 1 /\ Cardinality(b.kings[BLACK]) = 1

StatusByRules(in_check, has_move, checkmate, stalemate) ==
    /\ checkmate <=> (in_check /\ ~has_move)
    /\ stalemate <=> (~in_check /\ ~has_move)
    /\ ~(checkmate /\ stalemate)

\* C18: is_checkmate is true exactly when the king of the side to move is
\* attacked and that side has no move after which its king is not attacked;
\* is_stalemate is true exactly when the king is not attacked and there is no
\* such move; the two are never true together.
C18_CheckmateStalemate ==
    OneKingEach(board)
        => StatusByRules(KingAttacked(board, board.turn), HasRuleMove(board),
                         is_checkmate(board), is_stalemate(board))

\* a position where is_checkmate or is_stalemate is true
C18_Witness ==
    OneKingEach(board) /\ (is_checkmate(board) \/ is_stalemate(board))

-----------------------------------------------------------------------------
(* Evaluation: Board.value, Board.relative_value, Board.weighted_value       *)

PIECE_VALUES ==
    (PAWN :> 100) @@ (KNIGHT :> 320) @@ (BISHOP :> 330) @@ (ROOK :> 500)
        @@ (QUEEN :> 900) @@ (KING :> 20000)

\* the tables are lists of 64 values; the entry of square sq is at index sq + 1

PAWN_POSITION_BASE_VALUES ==
    <<
        0,   0,   0,   0,   0,   0,   0,   0,
       50,  50,  50,  50,  50,  50,  50,  50,
       10,  10,  20,  30,  30,  20,  10,  10,
        5,   5,  10,  25,  25,  10,   5,   5,
        0,   0,   0,  20,  20,   0,   0,   0,
        5,  -5, -10,   0,   0, -10,  -5,   5,
        5,  10,  10, -20, -20,  10,  10,   5,
        0,   0,   0,   0,   0,   0,   0,   0
    >>

KNIGHT_POSITION_BASE_VALUES ==
    <<
      -50, -40, -30, -30, -30, -30, -40, -50,
      -40, -20,   0,   0,   0,   0, -20, -40,
      -30,   0,  10,  15,  15,  10,   0, -30,
      -30,   5,  15,  20,  20,  15,   5, -30,
      -30,   0,  15,  20,  20,  15,   0, -30,
      -30,   5,  10,  15,  15,  10,   5, -30,
      -40, -20,   0,   5,   5,   0, -20, -40,
      -50, -40, -30, -30, -30, -30, -40, -50
    >>

BISHOP_POSITION_BASE_VALUES ==
    <<
      -20, -10, -10, -10, -10, -10, -10, -20,
      -10,   0,   0,   0,   0,   0,   0, -10,
      -10,   0,   5,  10,  10,   5,   0, -10,
      -10,   5,   5,  10,  10,   5,   5, -10,
      -10,   0,  10,  10,  10,  10,   0, -10,
      -10,  10,  10,  10,  10,  10,  10, -10,
      -10,   5,   0,   0,   0,   0,   5, -10,
      -20, -10, -10, -10, -10, -10, -10, -20
    >>

ROOK_POSITION_BASE_VALUES ==
    <<
        0,   0,   0,   0,   0,   0,   0,   0,
        5,  10,  10,  10,  10,  10,  10,   5,
       -5,   0,   0,   0,   0,   0,   0,  -5,
       -5,   0,   0,   0,   0,   0,   0,  -5,
       -5,   0,   0,   0,   0,   0,   0,  -5,
       -5,   0,   0,   0,   0,   0,   0,  -5,
       -5,   0,   0,   0,   0,   0,   0,  -5,
        0,   0,   0,   5,   5,   0,   0,   0
    >>

QUEEN_POSITION_BASE_VALUES ==
    <<
      -20, -10, -10,  -5,  -5, -10, -10, -20,
      -10,   0,   0,   0,   0,   0,   0, -10,
      -10,   0,   5,   5,   5,   5,   0, -10,
       -5,   0,   5,   5,   5,   5,   0,  -5,
        0,   0,   5,   5,   5,   5,   0,  -5,
      -10,   5,   5,   5,   5,   5,   0, -10,
      -10,   0,   5,   0,   0,   0,   0, -10,
      -20, -10, -10,  -5,  -5, -10, -10, -20
    >>

KING_POSITION_BASE_VALUES ==
    <<
      -30, -40, -40, -50, -50, -40, -40, -30,
      -30, -40, -40, -50, -50, -40, -40, -30,
      -30, -40, -40, -50, -50, -40, -40, -30,
      -30, -40, -40, -50, -50, -40, -40, -30,
      -20, -30, -30, -40, -40, -30, -30, -20,
      -10, -20, -20, -20, -20, -20, -20, -10,
       20,  20,   0,   0,   0,   0,  20,  20,
       20,  30,  10,   0,   0,  10,  30,  20
    >>

\* _mirror_list: new_list[SQUARES_VFLIP[i]] = list[i]
mirror_list(list) ==
    [j \in 1 .. 64 |-> list[CHOOSE i \in 1 .. 64 : SQUARES_VFLIP[i] = j - 1]]

PositionValues(base) == (WHITE :> mirror_list(base)) @@ (BLACK :> base)

PAWN_POSITION_VALUES == PositionValues(PAWN_POSITION_BASE_VALUES)

KNIGHT_POSITION_VALUES == PositionValues(KNIGHT_POSITION_BASE_VALUES)

BISHOP_POSITION_VALUES == PositionValues(BISHOP_POSITION_BASE_VALUES)

ROOK_POSITION_VALUES == PositionValues(ROOK_POSITION_BASE_VALUES)

QUEEN_POSITION_VALUES == PositionValues(QUEEN_POSITION_BASE_VALUES)

KING_POSITION_VALUES == PositionValues(KING_POSITION_BASE_VALUES)

\* game/constants.py and game/square.py, which define the late-game table, are
\* not among the sources: the table is taken to be the king end-game table of
\* the evaluation function the other tables come from
KING_LATE_GAME_POSITION_BASE_VALUES ==
    << -50, -40, -30, -20, -20, -30, -40, -50,
       -30, -20, -10,   0,   0, -10, -20, -30,
       -30, -10,  20,  30,  30,  20, -10, -30,
       -30, -10,  30,  40,  40,  30, -10, -30,
       -30, -10,  30,  40,  40,  30, -10, -30,
       -30, -10,  20,  30,  30,  20, -10, -30,
       -30, -30,   0,   0,   0,   0, -30, -30,
       -50, -30, -30, -30, -30, -30, -30, -50 >>

KING_LATE_GAME_POSITION_VALUES == PositionValues(KING_LATE_GAME_POSITION_BASE_VALUES)

\* Board.value._count_value
count_value(piece_type, pieces, modifier) ==
    PIECE_VALUES[piece_type] * bit_count(pieces) * modifier

\* Board.value, the pieces of one colour
ColourValue(b, colour, modifier) ==
    count_value(PAWN, b.pawns[colour], modifier)
        + count_value(ROOK, b.rooks[colour], modifier)
        + count_value(BISHOP, b.bishops[colour], modifier)
        + count_value(KNIGHT, b.knights[colour], modifier)
        + count_value(QUEEN, b.queens[colour], modifier)
        + count_value(KING, b.kings[colour], modifier)

\* Board.value
value(b) == ColourValue(b, WHITE, 1) + ColourValue(b, BLACK, -1)

\* Board.relative_value
relative_value(b) == (IF b.turn = WHITE THEN 1 ELSE -1) * value(b)

\* Board.weighted_value: for sq in bitboard_to_squares(pieces): total += ...
RECURSIVE WeightedSum(_, _, _, _, _)
WeightedSum(piece_value, values, squares, modifier, i) ==
    IF i > Len(squares) THEN 0
    ELSE (piece_value + values[squares[i] + 1]) * modifier
            + WeightedSum(piece_value, values, squares, modifier, i + 1)

PieceWeighted(piece_type, pos_values, pieces, colour, modifier) ==
    WeightedSum(PIECE_VALUES[piece_type], pos_values[colour],
                bitboard_to_squares(pieces[colour]), modifier, 1)

\* Board.weighted_value, the choice of the king table
KingPosValues(b) ==
    IF \/ b.queens[WHITE] \cup b.queens[BLACK] = {}
       \/ bit_count(b.queens[WHITE] \cup b.queens[BLACK] \cup b.rooks[WHITE]
                        \cup b.rooks[BLACK] \cup b.bishops[WHITE] \cup b.bishops[BLACK]
                        \cup b.knights[WHITE] \cup b.knights[BLACK]) <= 4
    THEN KING_POSITION_VALUES
    ELSE KING_LATE_GAME_POSITION_VALUES

\* Board.weighted_value, the pieces of one colour
ColourWeighted(b, colour, modifier, king_values) ==
    PieceWeighted(PAWN, PAWN_POSITION_VALUES, b.pawns, colour, modifier)
        + PieceWeighted(ROOK, ROOK_POSITION_VALUES, b.rooks, colour, modifier)
        + PieceWeighted(BISHOP, BISHOP_POSITION_VALUES, b.bishops, colour, modifier)
        + PieceWeighted(KNIGHT, KNIGHT_POSITION_VALUES, b.knights, colour, modifier)
        + PieceWeighted(QUEEN, QUEEN_POSITION_VALUES, b.queens, colour, modifier)
        + PieceWeighted(KING, king_values, b.kings, colour, modifier)

WeightedWith(b, king_values) ==
    ColourWeighted(b, WHITE, 1, king_values) + ColourWeighted(b, BLACK, -1, king_values)

\* Board.weighted_value
weighted_value(b) == WeightedWith(b, KingPosValues(b))

\* board_eval(board) for board_eval in simple_eval, weighted_eval
BoardEvals == {"simple_eval", "weighted_eval"}

Eval(board_eval, b) == IF board_eval = "simple_eval" THEN value(b) ELSE weighted_value(b)

-----------------------------------------------------------------------------
(* Search: minimax, negamax and alpha_beta of src/ai/algorithms.py           *)

LOW_BOUND == -9999999

HIGH_BOUND == 9999999

\* max([a, b]) and min([a, b])
MaxOf(a, b) == IF a >= b THEN a ELSE b

MinOf(a, b) == IF a <= b THEN a ELSE b

\* what a recursive search call returns (value, counter), the Board it leaves,
\* and the exception that ended it, if any
Searched(v, c, b, e) == [value |-> v, counter |-> c, board |-> b, err |-> e]

\* what a search driver returns (best_move), the Board it leaves, and the
\* exception that ended it, if any
Chosen(move, b, e) == [move |-> move, board |-> b, err |-> e]

RECURSIVE _minimax(_, _, _, _)
RECURSIVE MinimaxLoop(_, _, _, _, _, _, _)

\* _minimax, loop body after the recursive call: max or min, unmake_move
MinimaxStep(moves, i, depth_, is_maximising_player, player, score, r) ==
    IF r.err # "ok" THEN r
    ELSE MinimaxLoop(unmake_move(r.board), moves, i + 1, depth_, is_maximising_player,
                     player,
                     IF is_maximising_player THEN MaxOf(r.value, score)
                     ELSE MinOf(r.value, score))

\* _minimax, loop body after board.make_move(move)
MinimaxMade(moves, i, depth_, is_maximising_player, player, score, made) ==
    IF made.err # "ok" THEN Searched(score, 0, made.board, made.err)
    ELSE MinimaxStep(moves, i, depth_, is_maximising_player, player, score,
                     _minimax(made.board, depth_ - 1, ~is_maximising_player, player))

\* _minimax: for move in board.legal_moves
MinimaxLoop(b, moves, i, depth_, is_maximising_player, player, score) ==
    IF i > Len(moves) THEN Searched(score, 0, b, "ok")
    ELSE MinimaxMade(moves, i, depth_, is_maximising_player, player, score,
                     make_move(b, moves[i]))

_minimax(b, depth_, is_maximising_player, player) ==
    IF depth_ = 0 THEN Searched(IF player THEN value(b) ELSE value(b) * (-1), 0, b, "ok")
    ELSE MinimaxLoop(b, legal_moves(b), 1, depth_, is_maximising_player, player,
                     IF is_maximising_player THEN LOW_BOUND ELSE HIGH_BOUND)

RECURSIVE MinimaxRoot(_, _, _, _, _, _, _)

\* minimax, loop body after the recursive call: unmake_move, if value > score
MinimaxRootStep(moves, i, depth_, player, score, best, r) ==
    IF r.err # "ok" THEN Chosen(best, r.board, r.err)
    ELSE MinimaxRoot(unmake_move(r.board), moves, i + 1, depth_, player,
                     IF r.value > score THEN r.value ELSE score,
                     IF r.value > score THEN Some(moves[i]) ELSE best)

\* minimax, loop body after board.make_move(move)
MinimaxRootMade(moves, i, depth_, player, score, best, made) ==
    IF made.err # "ok" THEN Chosen(best, made.board, made.err)
    ELSE MinimaxRootStep(moves, i, depth_, player, score, best,
                         _minimax(made.board, depth_ - 1, FALSE, player))

\* minimax: for move in board.legal_moves
MinimaxRoot(b, moves, i, depth_, player, score, best) ==
    IF i > Len(moves) THEN Chosen(best, b, "ok")
    ELSE MinimaxRootMade(moves, i, depth_, player, score, best, make_move(b, moves[i]))

minimax(b, depth_) == MinimaxRoot(b, legal_moves(b), 1, depth_, b.turn, LOW_BOUND, None)

RECURSIVE _negamax(_, _, _)
RECURSIVE NegamaxLoop(_, _, _, _, _, _)

\* _negamax, loop body after the recursive call: value *= -1, unmake_move
NegamaxStep(moves, i, depth_, score, r) ==
    IF r.err # "ok" THEN r
    ELSE NegamaxLoop(unmake_move(r.board), moves, i + 1, depth_, r.counter,
                     IF r.value * (-1) > score THEN r.value * (-1) ELSE score)

\* _negamax, loop body after board.make_move(move)
NegamaxMade(moves, i, depth_, counter_, score, made) ==
    IF made.err # "ok" THEN Searched(score, counter_, made.board, made.err)
    ELSE NegamaxStep(moves, i, depth_, score, _negamax(made.board, depth_ - 1, counter_))

\* _negamax: for move in board.legal_moves
NegamaxLoop(b, moves, i, depth_, counter_, score) ==
    IF i > Len(moves) THEN Searched(score, counter_, b, "ok")
    ELSE NegamaxMade(moves, i, depth_, counter_, score, make_move(b, moves[i]))

_negamax(b, depth_, counter_) ==
    IF depth_ = 0 THEN Searched(relative_value(b), counter_ + 1, b, "ok")
    ELSE NegamaxLoop(b, legal_moves(b), 1, depth_, counter_, LOW_BOUND)

RECURSIVE NegamaxRoot(_, _, _, _, _, _, _)

\* negamax as it would be if the loop body did not call board.unmake_move()
NegamaxRootStepNoUnmake(moves, i, depth_, score, best, r) ==
    IF r.err # "ok" THEN Chosen(best, r.board, r.err)
    ELSE NegamaxRoot(r.board, moves, i + 1, depth_, r.counter,
                     IF r.value * (-1) > score THEN r.value * (-1) ELSE score,
                     IF r.value * (-1) > score THEN Some(moves[i]) ELSE best)

\* negamax, loop body after the recursive call
NegamaxRootStep(moves, i, depth_, score, best, r) ==
    IF r.err # "ok" THEN Chosen(best, r.board, r.err)
    ELSE NegamaxRoot(unmake_move(r.board), moves, i + 1, depth_, r.counter,
                     IF r.value * (-1) > score THEN r.value * (-1) ELSE score,
                     IF r.value * (-1) > score THEN Some(moves[i]) ELSE best)

\* negamax, loop body after board.make_move(move)
NegamaxRootMade(moves, i, depth_, counter_, score, best, made) ==
    IF made.err # "ok" THEN Chosen(best, made.board, made.err)
    ELSE NegamaxRootStep(moves, i, depth_, score, best,
                         _negamax(made.board, depth_ - 1, counter_))

\* negamax: for move in board.legal_moves
NegamaxRoot(b, moves, i, depth_, counter_, score, best) ==
    IF i > Len(moves) THEN Chosen(best, b, "ok")
    ELSE NegamaxRootMade(moves, i, depth_, counter_, score, best, make_move(b, moves[i]))

negamax(b, depth_) ==
    IF ~(depth_ > 0) THEN Chosen(None, b, "AssertionError")
    ELSE NegamaxRoot(b, legal_moves(b), 1, depth_, 0, LOW_BOUND, None)

RECURSIVE _alpha_beta_min(_, _, _, _, _, _, _)
RECURSIVE _alpha_beta_max(_, _, _, _, _, _, _)
RECURSIVE AlphaBetaMinLoop(_, _, _, _, _, _, _, _, _, _)
RECURSIVE AlphaBetaMaxLoop(_, _, _, _, _, _, _, _, _, _)

\* _alpha_beta_min / _alpha_beta_max at depth 0
AlphaBetaLeaf(b, player, board_eval, counter_) ==
    Searched(IF ~player THEN Eval(board_eval, b) ELSE Eval(board_eval, b) * (-1),
             counter_ + 1, b, "ok")

\* _alpha_beta_min, after the loop: if i == 0 ... return beta
AlphaBetaMinEnd(b, moves, beta, player, counter_) ==
    IF Len(moves) = 0
    THEN IF is_checkmate(b) /\ b.turn # player
         THEN Searched(HIGH_BOUND + 1, counter_, b, "ok")
         ELSE Searched(LOW_BOUND - 1, counter_, b, "ok")
    ELSE Searched(beta, counter_, b, "ok")

\* _alpha_beta_min, loop body after unmake_move: best, beta, the cut
AlphaBetaMinCut(b, moves, i, depth_, alpha, beta, player, board_eval, counter_, best) ==
    IF MinOf(beta, best) <= alpha THEN Searched(best, counter_, b, "ok")
    ELSE AlphaBetaMinLoop(b, moves, i + 1, depth_, alpha, MinOf(beta, best), player,
                          board_eval, counter_, best)

\* _alpha_beta_min, loop body after the recursive call
AlphaBetaMinStep(moves, i, depth_, alpha, beta, player, board_eval, best, r) ==
    IF r.err # "ok" THEN r
    ELSE AlphaBetaMinCut(unmake_move(r.board), moves, i, depth_, alpha, beta, player,
                         board_eval, r.counter, MinOf(r.value, best))

\* _alpha_beta_min, loop body after board.make_move(move)
AlphaBetaMinMade(moves, i, depth_, alpha, beta, player, board_eval, counter_, best, made) ==
    IF made.err # "ok" THEN Searched(best, counter_, made.board, made.err)
    ELSE AlphaBetaMinStep(moves, i, depth_, alpha, beta, player, board_eval, best,
                          _alpha_beta_max(made.board, depth_ - 1, alpha, beta, player,
                                          board_eval, counter_))

\* _alpha_beta_min: for move in board.legal_moves
AlphaBetaMinLoop(b, moves, i, depth_, alpha, beta, player, board_eval, counter_, best) ==
    IF i > Len(moves) THEN AlphaBetaMinEnd(b, moves, beta, player, counter_)
    ELSE AlphaBetaMinMade(moves, i, depth_, alpha, beta, player, board_eval, counter_,
                          best, make_move(b, moves[i]))

_alpha_beta_min(b, depth_, alpha, beta, player, board_eval, counter_) ==
    IF depth_ = 0 THEN AlphaBetaLeaf(b, player, board_eval, counter_)
    ELSE AlphaBetaMinLoop(b, legal_moves(b), 1, depth_, alpha, beta, player, board_eval,
                          counter_, HIGH_BOUND)

\* _alpha_beta_max, after the loop: if i == 0 ... return alpha
AlphaBetaMaxEnd(b, moves, alpha, player, counter_) ==
    IF Len(moves) = 0
    THEN IF is_checkmate(b) /\ b.turn # player
         THEN Searched(LOW_BOUND - 1, counter_, b, "ok")
         ELSE Searched(HIGH_BOUND + 1, counter_, b, "ok")
    ELSE Searched(alpha, counter_, b, "ok")

\* _alpha_beta_max, loop body after unmake_move: best, alpha, the cut
AlphaBetaMaxCut(b, moves, i, depth_, alpha, beta, player, board_eval, counter_, best) ==
    IF beta <= MaxOf(alpha, best) THEN Searched(best, counter_, b, "ok")
    ELSE AlphaBetaMaxLoop(b, moves, i + 1, depth_, MaxOf(alpha, best), beta, player,
                          board_eval, counter_, best)

\* _alpha_beta_max, loop body after the recursive call
AlphaBetaMaxStep(moves, i, depth_, alpha, beta, player, board_eval, best, r) ==
    IF r.err # "ok" THEN r
    ELSE AlphaBetaMaxCut(unmake_move(r.board), moves, i, depth_, alpha, beta, player,
                         board_eval, r.counter, MaxOf(r.value, best))

\* _alpha_beta_max, loop body after board.make_move(move)
AlphaBetaMaxMade(moves, i, depth_, alpha, beta, player, board_eval, counter_, best, made) ==
    IF made.err # "ok" THEN Searched(best, counter_, made.board, made.err)
    ELSE AlphaBetaMaxStep(moves, i, depth_, alpha, beta, player, board_eval, best,
                          _alpha_beta_min(made.board, depth_ - 1, alpha, beta, player,
                                          board_eval, counter_))

\* _alpha_beta_max: for move in board.legal_moves
AlphaBetaMaxLoop(b, moves, i, depth_, alpha, beta, player, board_eval, counter_, best) ==
    IF i > Len(moves) THEN AlphaBetaMaxEnd(b, moves, alpha, player, counter_)
    ELSE AlphaBetaMaxMade(moves, i, depth_, alpha, beta, player, board_eval, counter_,
                          best, make_move(b, moves[i]))

_alpha_beta_max(b, depth_, alpha, beta, player, board_eval, counter_) ==
    IF depth_ = 0 THEN AlphaBetaLeaf(b, player, board_eval, counter_)
    ELSE AlphaBetaMaxLoop(b, legal_moves(b), 1, depth_, alpha, beta, player, board_eval,
                          counter_, LOW_BOUND)

\* _get_best_move, after _board.make_move(_base_move): the value of the move
\* (_value *= -1) and the exception that ended the job, if any
BestMoveMade(depth_, player, board_eval, made) ==
    IF made.err # "ok" THEN made
    ELSE _alpha_beta_max(made.board, depth_ - 1, LOW_BOUND, HIGH_BOUND, player,
                         board_eval, 0)

_get_best_move(b, depth_, base_move, board_eval) ==
    BestMoveMade(depth_, b.turn, board_eval, make_move(b, base_move))

RECURSIVE AlphaBetaSelect(_, _, _, _, _, _, _, _)

\* alpha_beta, the loop over result: if value > score
AlphaBetaPick(b, new_board, depth_, board_eval, moves, i, score, best, r) ==
    IF r.err # "ok" THEN Chosen(best, b, r.err)
    ELSE AlphaBetaSelect(b, new_board, depth_, board_eval, moves, i + 1,
                         IF r.value * (-1) > score THEN r.value * (-1) ELSE score,
                         IF r.value * (-1) > score THEN Some(moves[i]) ELSE best)

\* alpha_beta: one job (new_board, depth_, move, board_eval) per legal move, run
\* by _get_best_move on its own Board, and the choice among the results
AlphaBetaSelect(b, new_board, depth_, board_eval, moves, i, score, best) ==
    IF i > Len(moves) THEN Chosen(best, b, "ok")
    ELSE AlphaBetaPick(b, new_board, depth_, board_eval, moves, i, score, best,
                       _get_best_move(new_board, depth_, moves[i], board_eval))

alpha_beta(b, depth_, board_eval) ==
    IF ~(depth_ > 0) THEN Chosen(None, b, "AssertionError")
    ELSE AlphaBetaSelect(b, NewBoard(fen(b), FALSE), depth_, board_eval, legal_moves(b),
                         1, LOW_BOUND, None)

\* the only move of White, a6b6, leaves Black stalemated:  k7/P7/Kp6/1P6/8/8/8/8 w - - 0 1
FEN_STALEMATING ==
    <<"k","7","/","P","7","/","K","p","6","/","1","P","6","/","8","/","8","/","8","/",
      "8"," ","w"," ","-"," ","-"," ","0"," ","1">>

\* either move of White, a2a3 or a2a4, is answered by g3g2 mate:
\*   8/8/8/8/8/6pk/P6p/7K w - - 0 1
FEN_FORCED_MATE ==
    <<"8","/","8","/","8","/","8","/","8","/","6","p","k","/","P","6","p","/","7","K",
      " ","w"," ","-"," ","-"," ","0"," ","1">>

SearchFens == {FEN_STALEMATING, FEN_FORCED_MATE}

MaxDepth == 3

MaxSearchPly == 2

SearchDepths == 1 .. MaxDepth

InitSearch == \E f \in SearchFens : Construct(f, FALSE) /\ Idle

\* board.make_move(m) for some m of the moves
MadeAmong(moves) == \E i \in DOMAIN moves : Made(make_move(board, moves[i]))

\* the position to search is reached by moves of board.legal_moves
MakeSearchMove ==
    /\ Len(board.history) < MaxSearchPly
    /\ MadeAmong(legal_moves(board))
    /\ op' = "make_move"
    /\ UNCHANGED <<fen_in, pc, depth, frames, counter, best_move, cmd, stdout, uci_in, parsed, game, ret, pool>>

\* the search returned r: the move, and the Board the caller holds
Returned(r, name, d) ==
    board' = r.board /\ err' = r.err /\ best_move' = r.move /\ op' = name /\ depth' = d

\* minimax(board, depth)
Minimax ==
    /\ \E d \in SearchDepths : Returned(minimax(board, d), "minimax", d)
    /\ UNCHANGED <<fen_in, pc, frames, counter, cmd, stdout, uci_in, parsed, game, ret, pool>>

\* negamax(board, depth)
Negamax ==
    /\ \E d \in SearchDepths : Returned(negamax(board, d), "negamax", d)
    /\ UNCHANGED <<fen_in, pc, frames, counter, cmd, stdout, uci_in, parsed, game, ret, pool>>

\* alpha_beta(board, depth, board_eval)
AlphaBeta ==
    /\ \E d \in SearchDepths, board_eval \in BoardEvals :
            Returned(alpha_beta(board, d, board_eval), "alpha_beta", d)
    /\ UNCHANGED <<fen_in, pc, frames, counter, cmd, stdout, uci_in, parsed, game, ret, pool>>

NextSearch == MakeSearchMove \/ UnmakeMove \/ Minimax \/ Negamax \/ AlphaBeta

SpecSearch == InitSearch /\ [][NextSearch]_vars

SearchNames == {"minimax", "negamax", "alpha_beta"}

\* C19: when minimax, negamax or alpha_beta returns, the caller's Board is in
\* exactly the state it had on entry: every piece bitboard, the turn, the
\* castling rights, the en-passant square, the clocks, the repetitions, the move
\* history and the snapshot history.
C19_SearchLeavesBoard == [][op' \in SearchNames => board' = board]_vars

\* a search of depth two or more has returned a move
C19_Witness ==
    op \in SearchNames /\ depth >= 2 /\ err = "ok" /\ best_move # None

\* the move is one of the moves
IsLegalChoice(moves, best) == best # None /\ \E i \in DOMAIN moves : moves[i] = Val(best)

\* negamax or alpha_beta ran on a position with a legal move and returned best
ChoiceLegal(moves, best) == Len(moves) > 0 => IsLegalChoice(moves, best)

\* C20: in a position where the side to move has a legal move, negamax and
\* alpha_beta return, for every depth from 1 up, a move that is a member of
\* legal_moves of that position, never None.
C20_SearchReturnsLegalMove ==
    [][op' \in {"negamax", "alpha_beta"} => ChoiceLegal(legal_moves(board), best_move')]_vars

\* negamax or alpha_beta has returned a move of legal_moves
C20_Witness ==
    /\ op \in {"negamax", "alpha_beta"}
    /\ err = "ok"
    /\ IsLegalChoice(legal_moves(board), best_move)

-----------------------------------------------------------------------------
(* Castling rights, pins and checks in positions reached by legal_moves      *)

\* the Board before the last move made
Before(b) == b.history[Len(b.history)]

\* C26: in every position reached by legal moves every square in
\* castling_rights[c] holds a rook of colour c: a right is cleared as soon as
\* its rook is no longer on its original square, whether it moved away or was
\* captured there.
C26_RightsHaveRooks ==
    \A c \in Colours : board.castling_rights[c] \subseteq board.rooks[c]

\* a rook has just moved off its original square and the right to castle with
\* it, held before the move, is gone
C26_Witness ==
    /\ op = "make_move" /\ err = "ok"
    /\ Len(board.history) > 0
    /\ \E c \in Colours :
        /\ LastMove(board).from_square \in Before(board).castling_rights[c]
        /\ LastMove(board).from_square \notin board.castling_rights[c]
        /\ LastMove(board).from_square \notin board.rooks[c]

\* a rook pinned on the e-file by a rook:  4k3/8/4r3/8/8/8/4R3/4K3 w - - 0 1
FEN_PIN ==
    <<"4","k","3","/","8","/","4","r","3","/","8","/","8","/","8","/","4","R","3","/",
      "4","K","3"," ","w"," ","-"," ","-"," ","0"," ","1">>

\* the same with a second rook behind the pinning one:
\*   4k3/4r3/4r3/8/8/8/4R3/4K3 w - - 0 1
FEN_PIN_DOUBLED ==
    <<"4","k","3","/","4","r","3","/","4","r","3","/","8","/","8","/","8","/","4","R",
      "3","/","4","K","3"," ","w"," ","-"," ","-"," ","0"," ","1">>

\* the king on e1 checked by the rook on a1, which the bishop can take and the
\* rook can block:  4k3/3R4/8/8/8/2B5/8/r3K3 w - - 0 1
FEN_SINGLE_CHECK ==
    <<"4","k","3","/","3","R","4","/","8","/","8","/","8","/","2","B","5","/","8","/",
      "r","3","K","3"," ","w"," ","-"," ","-"," ","0"," ","1">>

\* the same with a second check by the knight on f3:
\*   4k3/3R4/8/8/8/2B2n2/8/r3K3 w - - 0 1
FEN_DOUBLE_CHECK ==
    <<"4","k","3","/","3","R","4","/","8","/","8","/","8","/","2","B","2","n","2","/",
      "8","/","r","3","K","3"," ","w"," ","-"," ","-"," ","0"," ","1">>

LegalFens ==
    {FEN_PIN, FEN_PIN_DOUBLED, FEN_SINGLE_CHECK, FEN_DOUBLE_CHECK, FEN_CHECKING_PAWN}

InitLegal == \E f \in LegalFens : Construct(f, FALSE) /\ Idle

SpecLegal == InitLegal /\ [][Next]_vars

\* the move is one of the moves
InMoves(moves, move) == \E i \in DOMAIN moves : moves[i] = move

\* the rooks, bishops and queens of a colour that stand on a line with the
\* square: rooks and queens on its rank or file, bishops and queens on a diagonal
SlidersInLine(b, colour, sq) ==
    (BB_CARDINALS[sq] \cap (b.rooks[colour] \cup b.queens[colour]))
        \cup (BB_DIAGONALS[sq] \cap (b.bishops[colour] \cup b.queens[colour]))

\* the opposing sliders that pin the piece on from_square: the piece stands
\* alone between the king and the slider
Pinners(b, king_pos, from_square) ==
    {s \in SlidersInLine(b, ~b.turn, king_pos) :
        BB_BETWEEN[s][king_pos] \cap b.occupied = {from_square}}

\* every move of a pinned piece is yielded exactly if it stays on the pin ray
PinsRespected(b, king_pos, pseudo, legal) ==
    \A i \in DOMAIN pseudo :
        \A s \in Pinners(b, king_pos, pseudo[i].from_square) :
            InMoves(legal, pseudo[i])
                <=> pseudo[i].to_square \in BB_BETWEEN[s][king_pos] \cup {s}

\* C27: when the king is not in check, a move of a pinned piece is yielded by
\* legal_moves if and only if its destination is a square between the king and
\* the pinning slider or the square of the pinning slider, also when a second
\* opposing slider stands behind the pinning one on the same ray.
C27_PinnedMoves ==
    (OneKingEach(board) /\ ~KingAttacked(board, board.turn))
        => PinsRespected(board, msb(board.kings[board.turn]),
                         pseudo_legal_moves(board, board.turn), legal_moves(board))

\* some move of a pinned piece along the pin ray is yielded, some move of it
\* off the ray is not
PinSeen(b, king_pos, pseudo, legal) ==
    \E i, j \in DOMAIN pseudo :
        /\ Pinners(b, king_pos, pseudo[i].from_square) # {}
        /\ pseudo[j].from_square = pseudo[i].from_square
        /\ InMoves(legal, pseudo[i])
        /\ ~InMoves(legal, pseudo[j])

C27_Witness ==
    /\ OneKingEach(board) /\ ~KingAttacked(board, board.turn)
    /\ PinSeen(board, msb(board.kings[board.turn]),
               pseudo_legal_moves(board, board.turn), legal_moves(board))

\* the squares from which a piece of the colour attacks the square
Checkers(b, colour, sq) ==
    {from_square \in b.occupied_colour[colour] :
        sq \in moves_from_square(b, from_square, colour, TRUE, BB_EMPTY)}

\* the squares a colour attacks when the squares of mask are taken as empty
AttackedWithout(b, colour, mask) ==
    {sq \in SQUARES :
        \E from_square \in b.occupied_colour[colour] :
            sq \in moves_from_square(b, from_square, colour, TRUE, mask)}

\* what a move yielded in check must satisfy
CheckAnswer(king_pos, checkers, attacked, move) ==
    IF move.from_square = king_pos THEN move.to_square \notin attacked
    ELSE /\ Cardinality(checkers) = 1
         /\ \E a \in checkers : move.to_square \in BB_BETWEEN[a][king_pos] \cup {a}

ChecksAnswered(king_pos, checkers, attacked, legal) ==
    checkers # {} => \A i \in DOMAIN legal : CheckAnswer(king_pos, checkers, attacked, legal[i])

\* C28: when the king of the side to move is in check, legal_moves yields king
\* moves only if two or more pieces attack the king; with exactly one attacker
\* at A a non-king move is yielded only if its destination is A or a square
\* strictly between A and the king; a king move is yielded only if its
\* destination is not attacked with the king removed from the occupancy.
C28_InCheckMoves ==
    OneKingEach(board)
        => ChecksAnswered(msb(board.kings[board.turn]),
                          Checkers(board, ~board.turn, msb(board.kings[board.turn])),
                          AttackedWithout(board, ~board.turn, board.kings[board.turn]),
                          legal_moves(board))

\* in check by one piece, with a king move and a move of another piece yielded
CheckSeen(king_pos, checkers, legal) ==
    /\ Cardinality(checkers) = 1
    /\ \E i, j \in DOMAIN legal :
        legal[i].from_square = king_pos /\ legal[j].from_square # king_pos

C28_Witness ==
    /\ OneKingEach(board)
    /\ CheckSeen(msb(board.kings[board.turn]),
                 Checkers(board, ~board.turn, msb(board.kings[board.turn])),
                 legal_moves(board))

\* every move of the pieces, castling aside, that leaves the mover's king not
\* attacked is among the moves yielded
AllEscapesYielded(b, pseudo, legal) ==
    \A i \in DOMAIN pseudo :
        (~pseudo[i].is_castling /\ Escapes(make_move(b, pseudo[i]), b.turn))
            => InMoves(legal, pseudo[i])

\* C29: legal_moves is complete: every pseudo-legal move of the side to move
\* after which that side's king is not attacked is yielded by legal_moves,
\* including an en-passant capture that removes a pawn giving check.
C29_LegalMovesComplete ==
    OneKingEach(board)
        => AllEscapesYielded(board, pseudo_legal_moves(board, board.turn),
                             legal_moves(board))

\* the king is attacked and a move that ends the attack is yielded
C29_Witness ==
    /\ OneKingEach(board)
    /\ KingAttacked(board, board.turn)
    /\ Len(legal_moves(board)) > 0

-----------------------------------------------------------------------------
(* Repetition tracking                                                       *)

\* the move castles: the king moves more than one file
IsCastlingMove(b, move) ==
    /\ move.from_square \in b.kings[b.turn]
    /\ Abs(File(move.from_square) - File(move.to_square)) > 1

\* the move is a capture, a pawn move or castling
Irreversible(b, move) == IsPawnMoveOrCapture(b, move) \/ IsCastlingMove(b, move)

\* repetitions after the move, given repetitions before it: emptied by an
\* irreversible move, else one fingerprint longer with tracking and unchanged
\* without
RepetitionsStep(b, b2, move) ==
    IF Irreversible(b, move) THEN b2.repetitions = <<>>
    ELSE IF b.track_repetitions
         THEN /\ Len(b2.repetitions) = Len(b.repetitions) + 1
              /\ SubSeq(b2.repetitions, 1, Len(b.repetitions)) = b.repetitions
              /\ b2.repetitions[Len(b2.repetitions)] = short_fen([b2 EXCEPT !.turn = b.turn])
         ELSE b2.repetitions = b.repetitions

\* C30: make_move sets repetitions to the empty list on a capture, a pawn move
\* or castling, and appends the short-FEN fingerprint exactly when repetition
\* tracking is enabled and the move is none of these; with tracking disabled,
\* repetitions stays empty and has_threefold_repetition is false.
C30_Repetitions ==
    /\ [](~board.track_repetitions
            => board.repetitions = <<>> /\ ~has_threefold_repetition(board))
    /\ [][op' = "make_move" /\ err' = "ok"
            => RepetitionsStep(board, board', LastMove(board'))]_vars

\* with tracking enabled, a move that is no capture, pawn move or castling has
\* added a fingerprint
C30_Witness ==
    /\ op = "make_move" /\ err = "ok"
    /\ board.track_repetitions
    /\ Len(board.repetitions) > 0

-----------------------------------------------------------------------------
(* Move strings: Move.from_uci and Move.uci (src/engine/move.py)             *)

\* Move.uci without the lower-casing of the square names
uci_as_named(move) ==
    LET promotion == IF move.promotion # None THEN move.promotion ELSE <<>>
    IN  SquareName(move.from_square) \o SquareName(move.to_square) \o promotion

\* Move.uci
uci(move) ==
    LET promotion == IF move.promotion # None THEN move.promotion ELSE <<>>
    IN  LowerStr(SquareName(move.from_square)) \o LowerStr(SquareName(move.to_square))
            \o promotion

\* the strings parsed: squares of the corners and of the e file, their letters in
\* either case, with and without each promotion letter
UciFiles == {"a", "e", "h", "A", "E", "H"}
UciRanks == {"1", "2", "7", "8"}
UciPromotions == {<<>>, <<"q">>, <<"r">>, <<"b">>, <<"n">>}
UciStrings ==
    {<<f1, r1, f2, r2>> \o p : f1 \in {"a", "e", "E"}, r1 \in UciRanks, f2 \in UciFiles,
                               r2 \in {"1", "8"}, p \in UciPromotions}

InitUci ==
    /\ Construct(STARTING_STATE, FALSE)
    /\ NoTraversal
    /\ cmd = <<>> /\ stdout = <<>>
    /\ uci_in \in UciStrings
    /\ parsed = None
    /\ game = <<>> /\ ret = <<>> /\ pool = <<>>

\* parsed = Move.from_uci(uci_in)
FromUci ==
    /\ parsed = None
    /\ parsed' = Some(from_uci(uci_in))
    /\ op' = "from_uci"
    /\ err' = "ok"
    /\ UNCHANGED <<board, fen_in, pc, depth, frames, counter, best_move, cmd, stdout, uci_in, game, ret, pool>>

\* Move.from_uci called with another string
NextString ==
    /\ parsed # None
    /\ \E s \in UciStrings : uci_in' = s /\ parsed' = Some(from_uci(s))
    /\ op' = "from_uci"
    /\ err' = "ok"
    /\ UNCHANGED <<board, fen_in, pc, depth, frames, counter, best_move, cmd, stdout, game, ret, pool>>

NextUci == FromUci \/ NextString

SpecUci == InitUci /\ [][NextUci]_vars

\* the square a file letter (in either case) and a rank digit name
LowerFiles == <<"a", "b", "c", "d", "e", "f", "g", "h">>
UpperFiles == <<"A", "B", "C", "D", "E", "F", "G", "H">>
NamedSquare(letter, digit) ==
    LET f == CHOOSE i \in 1 .. 8 : LowerFiles[i] = letter \/ UpperFiles[i] = letter
        r == CHOOSE i \in 1 .. 8 : RANK_NAMES[i] = digit
    IN  8 * (r - 1) + (f - 1)

\* s with the letters of its two squares in lower case
LowerSquares(s) ==
    [i \in DOMAIN s |->
        IF i \in {1, 3} THEN LowerFiles[CHOOSE k \in 1 .. 8 : s[i] \in {LowerFiles[k], UpperFiles[k]}]
        ELSE s[i]]

\* C23: for a well-formed move string s, Move.from_uci(s) carries the from-square,
\* the to-square and the promotion letter s names, whichever case the square
\* letters of s are written in, and its uci is s written with lower-case square
\* letters (s itself when s is in lower case)
C23_UciRoundTrip ==
    parsed # None =>
        /\ Val(parsed).from_square = NamedSquare(uci_in[1], uci_in[2])
        /\ Val(parsed).to_square = NamedSquare(uci_in[3], uci_in[4])
        /\ Val(parsed).promotion = (IF Len(uci_in) = 5 THEN Some(uci_in[5]) ELSE None)
        /\ uci(Val(parsed)) = LowerSquares(uci_in)
        /\ (uci_in = LowerSquares(uci_in) => uci(Val(parsed)) = uci_in)
        /\ from_uci(LowerSquares(uci_in)) = Val(parsed)

\* an under-promotion written in lower case was parsed, and so was a move whose
\* square letters are in upper case
C23_Witness ==
    /\ parsed # None
    /\ uci_in = <<"e", "7", "e", "8", "n">>

C23_WitnessUpper ==
    /\ parsed # None
    /\ uci_in = <<"E", "2", "H", "1">>

-----------------------------------------------------------------------------
(* The UCI front end: UciEngine of src/uci/engine.py.  One step of run() reads   *)
(* a command line and handles it; the engine's Board is the variable board.      *)

NAME ==
    <<"M","i","l","d","r","e","d">>

AUTHOR ==
    <<"N","e","s","h"," ","P","a","t","e","l">>

SKILL ==
    <<"s","k","i","l","l">>

\* Parameter(name, default_value, min_value, max_value)
Parameter(name, default_value, min_value, max_value) ==
    [name |-> name, default_value |-> default_value, min_value |-> min_value,
     max_value |-> max_value, value |-> default_value]

PARAMS == <<Parameter(SKILL, 3, Some(0), Some(5))>>

\* Parameter.uci_type: the default values of PARAMS are integers

SPIN ==
    <<"s","p","i","n">>

uci_type(param) == SPIN

ID_NAME ==
    <<"i","d"," ","n","a","m","e"," ">>

ID_AUTHOR ==
    <<"i","d"," ","a","u","t","h","o","r"," ">>

OPTION_NAME ==
    <<"o","p","t","i","o","n"," ","n","a","m","e"," ">>

TYPE ==
    <<" ","t","y","p","e"," ">>

DEFAULT ==
    <<" ","d","e","f","a","u","l","t"," ">>

MIN ==
    <<" ","m","i","n"," ">>

MAX ==
    <<" ","m","a","x"," ">>

UCIOK ==
    <<"u","c","i","o","k">>

READYOK ==
    <<"r","e","a","d","y","o","k">>

UCINEWGAME ==
    <<"u","c","i","n","e","w","g","a","m","e">>

ISREADY ==
    <<"i","s","r","e","a","d","y">>

UCI ==
    <<"u","c","i">>

POSITION ==
    <<"p","o","s","i","t","i","o","n">>

FEN ==
    <<"f","e","n">>

MOVES ==
    <<"m","o","v","e","s">>

STARTPOS ==
    <<"s","t","a","r","t","p","o","s">>

\* the option line about() builds for one parameter
OptionLine(param) ==
    OPTION_NAME \o param.name \o TYPE \o uci_type(param) \o DEFAULT
        \o IntToStr(param.default_value)
        \o (IF param.min_value # None THEN MIN \o IntToStr(Val(param.min_value)) ELSE <<>>)
        \o (IF param.max_value # None THEN MAX \o IntToStr(Val(param.max_value)) ELSE <<>>)

\* UciEngine.about with an id author line in second place
about_with_author(params) ==
    <<ID_NAME \o NAME, ID_AUTHOR \o AUTHOR>> \o [i \in DOMAIN params |-> OptionLine(params[i])]
        \o <<UCIOK>>

\* UciEngine.about: the lines of the one string it writes
about(params) ==
    <<ID_NAME \o NAME, ID_NAME \o AUTHOR>> \o [i \in DOMAIN params |-> OptionLine(params[i])]
        \o <<UCIOK>>

\* UciEngine.isready
isready == <<READYOK>>

\* UciEngine.reset_board: Board()
reset_board == NewBoard(STARTING_STATE, FALSE)

\* UciEngine.set_fen: Board(fen=fen)
set_fen(fen_) == NewBoard(fen_, FALSE)

\* one round of the loop of play_moves; an exception raised by make_move ends it
PlayMove(r, m) == IF r.err # "ok" THEN r ELSE make_move(r.board, from_uci(m))

\* UciEngine.play_moves
play_moves(b, moves) == Loop(PlayMove, [board |-> b, err |-> "ok"], moves)

\* str.strip(), the white space being spaces
strip(s) ==
    LET inked == {i \in DOMAIN s : s[i] # " "}
    IN  IF inked = {} THEN <<>>
        ELSE SubSeq(s, CHOOSE i \in inked : \A j \in inked : i <= j,
                       CHOOSE i \in inked : \A j \in inked : i >= j)

\* str.startswith
startswith(s, prefix) == Len(s) >= Len(prefix) /\ SubSeq(s, 1, Len(prefix)) = prefix

\* one round of the loop over the items of a position command
PositionItem(st, item) ==
    LET low == LowerStr(item)
        fen_flag == IF low = FEN THEN TRUE ELSE IF low = MOVES THEN FALSE ELSE st.fen_flag
        move_flag == IF low = MOVES THEN TRUE ELSE IF low = FEN THEN FALSE ELSE st.move_flag
    IN  [fen_flag |-> fen_flag,
         move_flag |-> move_flag,
         start_pos |-> st.start_pos \/ low = STARTPOS,
         fen |-> IF fen_flag /\ low # FEN THEN Append(st.fen, item) ELSE st.fen,
         moves |-> IF move_flag /\ low # MOVES THEN Append(st.moves, item) ELSE st.moves]

\* the flags and lists the loop leaves for the items after the word position
PositionItems(line) ==
    Loop(PositionItem,
         [fen_flag |-> FALSE, move_flag |-> FALSE, start_pos |-> FALSE, fen |-> <<>>,
          moves |-> <<>>],
         Tail(Split(line)))

\* the position branch of run(): reset, set the FEN, play the moves
PositionSet(b, st) ==
    LET started == IF st.start_pos THEN reset_board ELSE b
        loaded == IF st.fen # <<>> THEN set_fen(Join(st.fen)) ELSE started
    IN  IF st.moves # <<>> THEN play_moves(loaded, st.moves)
        ELSE [board |-> loaded, err |-> "ok"]

\* what one round of run() does with the line read: the Board it leaves, the
\* lines it writes and the exception that ends run(), if any
Handled(b, line) ==
    LET low == LowerStr(line)
    IN  IF low = UCINEWGAME THEN [board |-> reset_board, err |-> "ok", stdout |-> <<>>]
        ELSE IF low = ISREADY THEN [board |-> b, err |-> "ok", stdout |-> isready]
        ELSE IF low = UCI THEN [board |-> b, err |-> "ok", stdout |-> about(PARAMS)]
        ELSE IF startswith(low, POSITION)
            THEN LET r == PositionSet(b, PositionItems(line))
                 IN  [board |-> r.board, err |-> r.err, stdout |-> <<>>]
        ELSE [board |-> b, err |-> "ok", stdout |-> <<>>]

\* lines of play from the initial position, given as move strings
E2E4 == <<"e", "2", "e", "4">>
E7E5 == <<"e", "7", "e", "5">>
G1F3 == <<"g", "1", "f", "3">>
B8C6 == <<"b", "8", "c", "6">>
F1C4 == <<"f", "1", "c", "4">>
G8F6 == <<"g", "8", "f", "6">>
E1G1 == <<"e", "1", "g", "1">>
D2D4 == <<"d", "2", "d", "4">>
D7D5 == <<"d", "7", "d", "5">>
C2C4 == <<"c", "2", "c", "4">>
D5C4 == <<"d", "5", "c", "4">>
E4D5 == <<"e", "4", "d", "5">>
H1H2 == <<"h", "1", "h", "2">>
G7G8Q == <<"g", "7", "g", "8", "q">>
EngineGames ==
    {<<E2E4, E7E5, G1F3, B8C6, F1C4, G8F6, E1G1>>, <<D2D4, D7D5, C2C4, D5C4>>,
     <<G1F3, G8F6, E2E4>>, <<E2E4, D7D5, E4D5>>}

\* kings and White's rooks on their original squares, the castling field empty
\*   4k3/8/8/8/8/8/8/R3K2R w - - 0 1
FEN_NO_CASTLING ==
    <<"4","k","3","/","8","/","8","/","8","/","8","/","8","/","8","/","R","3","K","2","R"," ",
      "w"," ","-"," ","-"," ","0"," ","1">>

\* the FEN strings given in position commands, each with a line of play from it
EngineFenLines ==
    {<<FEN_CASTLING>>, <<FEN_CASTLING, E1G1>>, <<FEN_PROMOTION>>, <<FEN_PROMOTION, G7G8Q>>,
     <<FEN_ROOK_OFF_HOME>>, <<FEN_NO_CASTLING>>, <<FEN_NO_CASTLING, H1H2>>}

\* position startpos [moves m1 ... mn]
StartposLine(ms) ==
    Join(<<POSITION, STARTPOS>> \o (IF ms = <<>> THEN <<>> ELSE <<MOVES>> \o ms))

\* position fen F [moves m1 ... mn]
FenLine(f, ms) ==
    Join(<<POSITION, FEN, f>> \o (IF ms = <<>> THEN <<>> ELSE <<MOVES>> \o ms))

\* the command lines read: the commands in lower and in upper case and with
\* white space around them, and position commands for every opening part of
\* the lines of play
EngineLines ==
    {UCI, ISREADY, UCINEWGAME, UpperStr(UCI), UCI \o <<" ">>, UpperStr(UCINEWGAME)}
    \cup UNION {{StartposLine(SubSeq(g, 1, n)) : n \in 0 .. Len(g)} : g \in EngineGames}
    \cup {UpperStr(StartposLine(SubSeq(g, 1, n))) : g \in EngineGames, n \in 0 .. 2}
    \cup {FenLine(l[1], Tail(l)) : l \in EngineFenLines}

\* UciEngine(): the Board of the initial position, nothing read or written
InitEngine == Construct(STARTING_STATE, FALSE) /\ Idle

\* one round of run(): a line is read, stripped and handled
Run ==
    /\ err = "ok"
    /\ \E line \in EngineLines :
        LET r == Handled(board, strip(line))
        IN  /\ board' = r.board
            /\ err' = r.err
            /\ stdout' = r.stdout
            /\ cmd' = line
    /\ op' = "run"
    /\ UNCHANGED <<fen_in, pc, depth, frames, counter, best_move, uci_in, parsed, game, ret, pool>>

NextEngine == Run

SpecEngine == InitEngine /\ [][NextEngine]_vars

\* C21: in reply to the command uci the engine writes an id name line, then an
\* id author line, then one option line for each parameter of PARAMS, then
\* uciok, and nothing after it
C21_AboutLines ==
    op = "run" /\ LowerStr(strip(cmd)) = UCI =>
        /\ Len(stdout) = Len(PARAMS) + 3
        /\ startswith(stdout[1], ID_NAME)
        /\ startswith(stdout[2], ID_AUTHOR)
        /\ \A i \in DOMAIN PARAMS : startswith(stdout[i + 2], OPTION_NAME \o PARAMS[i].name)
        /\ stdout[Len(stdout)] = UCIOK

\* the command uci has been read and handled
C21_Witness == op = "run" /\ cmd = UCI /\ stdout # <<>>

\* what a position is made of: placement, side to move, castling rights,
\* en-passant square and the two counters
PositionIn(b) ==
    [pawns |-> b.pawns, knights |-> b.knights, bishops |-> b.bishops, rooks |-> b.rooks,
     queens |-> b.queens, kings |-> b.kings, turn |-> b.turn,
     castling_rights |-> b.castling_rights, en_passant_sq |-> b.en_passant_sq,
     halfmove_clock |-> b.halfmove_clock, fullmoves |-> b.fullmoves]

\* the rooks a castling field names
RightsNamed(field) ==
    LET has(ch) == \E i \in DOMAIN field : field[i] = ch
    IN  ColourMap((IF has("K") THEN {H1} ELSE {}) \cup (IF has("Q") THEN {A1} ELSE {}),
                  (IF has("k") THEN {H8} ELSE {}) \cup (IF has("q") THEN {A8} ELSE {}))

\* the position a six-field FEN string describes: the castling rights are those
\* its castling field names
Described(f) == [NewBoard(f, FALSE) EXCEPT !.castling_rights = RightsNamed(Split(f)[3])]

\* b with the moves ms made in order
RECURSIVE Applied(_, _)
Applied(b, ms) ==
    IF ms = <<>> THEN b ELSE Applied(make_move(b, from_uci(Head(ms))).board, Tail(ms))

\* the position a command `position startpos [moves ...]` or
\* `position fen F [moves ...]` (F of six fields) asks for
Asked(line) ==
    LET items == Split(line)
    IN  IF LowerStr(items[2]) = STARTPOS
            THEN Applied(NewBoard(STARTING_STATE, FALSE), SubSeq(items, 4, Len(items)))
            ELSE Applied(Described(Join(SubSeq(items, 3, 8))), SubSeq(items, 10, Len(items)))

\* C22: whatever was read before, after `position startpos moves m1 ... mn` the
\* engine's board is the initial position with m1 ... mn made in order, after
\* `position fen F moves m1 ... mn` it is the position F describes with
\* m1 ... mn made in order, and after ucinewgame it is the initial position
C22_PositionCommand ==
    op = "run" =>
        /\ LowerStr(strip(cmd)) = UCINEWGAME
            => PositionIn(board) = PositionIn(NewBoard(STARTING_STATE, FALSE))
        /\ startswith(LowerStr(strip(cmd)), POSITION)
            => PositionIn(board) = PositionIn(Asked(strip(cmd)))

\* a position command has been handled whose FEN string names no castling
\* right while the white king and rooks stand on their original squares
C22_Witness == op = "run" /\ err = "ok" /\ cmd = FenLine(FEN_NO_CASTLING, <<H1H2>>)

-----------------------------------------------------------------------------
(* The piece-list Game of src/engine/game.py with the pieces of              *)
(* src/engine/pieces.py.  A Piece object is named by its type, colour and    *)
(* original position (what __eq__ and __hash__ look at) and the number of    *)
(* the move that created it (0 for the pieces from_fen creates): two objects *)
(* can be equal without being the same.  A Game g holds the set g.pieces,    *)
(* and for every Piece object created so far its position g.pos, the list    *)
(* object its move_history refers to, g.hist, and the contents g.lists of    *)
(* every list object.  A Position on the board is the index of its square.   *)

KINGSIDE == "kingside"
QUEENSIDE == "queenside"

CARDINALS == <<<<1, 0>>, <<-1, 0>>, <<0, 1>>, <<0, -1>>>>
DIAGONALS == <<<<1, 1>>, <<-1, -1>>, <<-1, 1>>, <<1, -1>>>>

\* the Piece object of a type and colour created at pos by the move numbered serial
PieceObject(type, colour, pos, serial) == <<type, colour, pos, serial>>

\* Piece.type, Piece.colour, Piece.original_pos
TypeOf(piece) == piece[1]
ColourOf(piece) == piece[2]
OriginalPos(piece) == piece[3]

\* Piece.__eq__ and Piece.__hash__: type, colour and original position
PieceEq(piece, other) ==
    /\ TypeOf(piece) = TypeOf(other)
    /\ ColourOf(piece) = ColourOf(other)
    /\ OriginalPos(piece) = OriginalPos(other)

\* set.add: nothing is added when an equal element is in the set
SetAdd(pieces, piece) ==
    IF \E other \in pieces : PieceEq(piece, other) THEN pieces ELSE pieces \cup {piece}

\* set.remove: the element equal to piece leaves the set
SetRemove(pieces, piece) == {other \in pieces : ~PieceEq(piece, other)}

\* Position.in_board
in_board(file, rank) == 0 <= file /\ file < 8 /\ 0 <= rank /\ rank < 8

\* piece.move_history
HistoryOf(g, piece) == g.lists[g.hist[piece]]

\* Game.squares: the piece of every square, or None (the pieces of g.pieces
\* stand on different squares)
GameSquares(g) ==
    [i \in SQUARES |->
        IF \E piece \in g.pieces : g.pos[piece] = i
            THEN Some(CHOOSE piece \in g.pieces : g.pos[piece] = i)
            ELSE None]

\* Piece._occupied_same_team and Piece._occupied_opposite_team
OccupiedSameTeam(squares, colour, i) ==
    squares[i] # None /\ ColourOf(Val(squares[i])) = colour

OccupiedOppositeTeam(squares, colour, i) ==
    squares[i] # None /\ ColourOf(Val(squares[i])) # colour

\* one move pattern of Piece._repeat_move, from the position (file, rank) on
RECURSIVE RepeatFrom(_, _, _, _, _, _)
RepeatFrom(squares, colour, file, rank, x, y) ==
    IF ~in_board(file, rank) THEN {}
    ELSE LET i == file_rank_to_index(file, rank)
         IN  IF squares[i] # None
                 THEN (IF ColourOf(Val(squares[i])) # colour THEN {i} ELSE {})
                 ELSE {i} \cup RepeatFrom(squares, colour, file + x, rank + y, x, y)

\* Piece._repeat_move
Piece_repeat_move(squares, colour, pos, move_patterns) ==
    UNION {RepeatFrom(squares, colour, File(pos) + move_patterns[k][1],
                      Rank(pos) + move_patterns[k][2], move_patterns[k][1],
                      move_patterns[k][2]) : k \in DOMAIN move_patterns}

\* Pawn._moves
Pawn_moves(squares, en_passant, colour, pos) ==
    LET direction == IF colour = WHITE THEN 1 ELSE -1
        file == File(pos)
        rank == Rank(pos)
        forwards ==
            {<<file, rank + direction>>}
                \cup (IF colour = WHITE /\ rank = 1 THEN {<<file, rank + 2>>}
                      ELSE IF colour = BLACK /\ rank = 6 THEN {<<file, rank - 2>>}
                      ELSE {})
        potential_attacks == {<<file + 1, rank + direction>>, <<file - 1, rank + direction>>}
    IN  {file_rank_to_index(p[1], p[2]) :
            p \in {q \in forwards :
                    in_board(q[1], q[2]) /\ squares[file_rank_to_index(q[1], q[2])] = None}}
        \cup
        {file_rank_to_index(p[1], p[2]) :
            p \in {q \in potential_attacks :
                    /\ in_board(q[1], q[2])
                    /\ \/ OccupiedOppositeTeam(squares, colour, file_rank_to_index(q[1], q[2]))
                       \/ en_passant = Some(file_rank_to_index(q[1], q[2]))}}

\* Knight._moves
KnightSteps == {<<i, j>> \in {1, -1, 2, -2} \X {1, -1, 2, -2} : Abs(i) + Abs(j) = 3}
Knight_moves(squares, colour, pos) ==
    {file_rank_to_index(File(pos) + s[1], Rank(pos) + s[2]) :
        s \in {t \in KnightSteps :
                /\ in_board(File(pos) + t[1], Rank(pos) + t[2])
                /\ ~OccupiedSameTeam(squares, colour,
                                     file_rank_to_index(File(pos) + t[1], Rank(pos) + t[2]))}}

\* CASTLE_POSITIONS of Rook and of King
ROOK_CASTLE_POSITIONS ==
    ColourMap((A1 :> QUEENSIDE) @@ (H1 :> KINGSIDE), (A8 :> QUEENSIDE) @@ (H8 :> KINGSIDE))
KING_CASTLE_POSITIONS == ColourMap({E1}, {E8})

\* Piece.can_castle
can_castle(g, piece) ==
    IF TypeOf(piece) \in {ROOK, KING}
        THEN IF Len(HistoryOf(g, piece)) > 0 THEN FALSE
             ELSE IF TypeOf(piece) = ROOK
                 THEN g.pos[piece] \in DOMAIN ROOK_CASTLE_POSITIONS[ColourOf(piece)]
                 ELSE g.pos[piece] \in KING_CASTLE_POSITIONS[ColourOf(piece)]
        ELSE FALSE

\* Rook.rook_type, None for the other pieces
rook_type(g, piece) ==
    IF TypeOf(piece) # ROOK \/ Len(HistoryOf(g, piece)) > 0 THEN None
    ELSE IF g.pos[piece] \in DOMAIN ROOK_CASTLE_POSITIONS[ColourOf(piece)]
        THEN Some(ROOK_CASTLE_POSITIONS[ColourOf(piece)][g.pos[piece]])
        ELSE None

\* the squares between king and rook that King._moves wants empty, for a rook
\* of the given type
CastlePath(pos, type) ==
    IF type = KINGSIDE THEN {pos + 1, pos + 2} ELSE {pos - 1, pos - 2, pos - 3}

\* King._moves
King_moves(g, squares, piece) ==
    LET colour == ColourOf(piece)
        pos == g.pos[piece]
        steps == {(CARDINALS \o DIAGONALS)[k] : k \in 1 .. 8}
    IN  {file_rank_to_index(File(pos) + s[1], Rank(pos) + s[2]) :
            s \in {t \in steps :
                    /\ in_board(File(pos) + t[1], Rank(pos) + t[2])
                    /\ ~OccupiedSameTeam(squares, colour,
                                         file_rank_to_index(File(pos) + t[1], Rank(pos) + t[2]))}}
        \cup
        (IF can_castle(g, piece)
            THEN {pos + (IF Val(rook_type(g, rook)) = KINGSIDE THEN 2 ELSE -2) :
                    rook \in {r \in g.pieces :
                                /\ ColourOf(r) = colour /\ TypeOf(r) = ROOK /\ can_castle(g, r)
                                /\ rook_type(g, r) # None
                                /\ \A i \in CastlePath(pos, Val(rook_type(g, r))) :
                                        squares[i] = None}}
            ELSE {})

\* Piece.legal_moves: the positions in the board among those _moves gives
Piece_legal_moves(g, squares, piece) ==
    LET type == TypeOf(piece)
        colour == ColourOf(piece)
        pos == g.pos[piece]
    IN  IF type = PAWN THEN Pawn_moves(squares, g.en_passant, colour, pos)
        ELSE IF type = ROOK THEN Piece_repeat_move(squares, colour, pos, CARDINALS)
        ELSE IF type = KNIGHT THEN Knight_moves(squares, colour, pos)
        ELSE IF type = BISHOP THEN Piece_repeat_move(squares, colour, pos, DIAGONALS)
        ELSE IF type = QUEEN THEN Piece_repeat_move(squares, colour, pos, CARDINALS \o DIAGONALS)
        ELSE King_moves(g, squares, piece)

\* Game.attacked_by
GameAttackedBy(g, pos, player_colour) ==
    LET squares == GameSquares(g)
    IN  \E piece \in g.pieces :
            ColourOf(piece) # player_colour /\ pos \in Piece_legal_moves(g, squares, piece)

\* Game.is_in_check (the king of the colour is among the pieces)
GameIsInCheck(g, colour) ==
    LET king == CHOOSE p \in g.pieces : TypeOf(p) = KING /\ ColourOf(p) = colour
    IN  GameAttackedBy(g, g.pos[king], colour)

\* one character of the piece placement in from_fen of src/engine/game.py
GameFenChar(st, char) ==
    IF st.err # "ok" THEN st
    ELSE IF IsDigit(char) THEN [st EXCEPT !.file = @ + DigitVal(char)]
    ELSE IF char = "/" THEN [st EXCEPT !.rank = @ - 1, !.file = 0]
    ELSE IF \A k \in DOMAIN PIECE_TYPES : PIECE_TYPES[k] # Lower(char)
        THEN [st EXCEPT !.err = "AssertionError"]
    ELSE LET piece == PieceObject(Lower(char), IsUpper(char),
                                  file_rank_to_index(st.file, st.rank), 0)
         IN  [st EXCEPT !.pieces = SetAdd(@, piece), !.file = @ + 1]

\* from_fen of src/engine/game.py: the pieces (each on its original position
\* with an empty move_history), turn (None or Some colour), en_passant,
\* halfmove_clock and fullmoves, or the exception raised
game_from_fen(fen_) ==
    LET components == Split(fen_)
        placed == Loop(GameFenChar, [rank |-> 7, file |-> 0, pieces |-> {}, err |-> "ok"],
                       components[1])
    IN  [pieces |-> placed.pieces,
         turn |-> IF Len(components) > 1
                      THEN Some(IF LowerStr(components[2]) = <<"w">> THEN WHITE ELSE BLACK)
                      ELSE None,
         en_passant |-> IF Len(components) > 3 /\ UpperStr(components[4]) # <<"-">>
                            THEN Some(from_coord(UpperStr(components[4])))
                            ELSE None,
         halfmove_clock |-> IF Len(components) > 4 THEN ParseInt(components[5]) ELSE 0,
         fullmoves |-> IF Len(components) > 5 THEN ParseInt(components[6]) ELSE 1,
         err |-> IF placed.err # "ok" THEN placed.err
                 ELSE IF Cardinality(placed.pieces) < 2 THEN "ValueError"
                 ELSE "ok"]

\* Game(state), when from_fen returns
GameOf(parts) ==
    [pieces |-> parts.pieces,
     pos |-> [piece \in parts.pieces |-> OriginalPos(piece)],
     hist |-> [piece \in parts.pieces |-> piece],
     lists |-> [piece \in parts.pieces |-> <<>>],
     turn |-> parts.turn,
     en_passant |-> parts.en_passant,
     halfmove_clock |-> parts.halfmove_clock,
     fullmoves |-> parts.fullmoves,
     repetitions |-> <<>>,
     move_history |-> <<>>,
     counter |-> 0]

\* Game._can_castle
_can_castle(g, colour, castle_type) ==
    /\ \E p \in g.pieces : ColourOf(p) = colour /\ TypeOf(p) = KING /\ can_castle(g, p)
    /\ \E p \in g.pieces :
        /\ ColourOf(p) = colour /\ TypeOf(p) = ROOK /\ can_castle(g, p)
        /\ rook_type(g, p) = Some(castle_type)

\* Game.castle_flags
game_castle_flags(g) ==
    LET flags == (IF _can_castle(g, WHITE, KINGSIDE) THEN <<"K">> ELSE <<>>)
                 \o (IF _can_castle(g, WHITE, QUEENSIDE) THEN <<"Q">> ELSE <<>>)
                 \o (IF _can_castle(g, BLACK, KINGSIDE) THEN <<"k">> ELSE <<>>)
                 \o (IF _can_castle(g, BLACK, QUEENSIDE) THEN <<"q">> ELSE <<>>)
    IN  IF flags # <<>> THEN flags ELSE <<"-">>

\* Piece.code
code(piece) == IF ColourOf(piece) = WHITE THEN Upper(TypeOf(piece)) ELSE Lower(TypeOf(piece))

\* the part of Game.fen for one rank, from a file on, blank_counter squares
\* before it being empty
RECURSIVE GameFenRank(_, _, _, _)
GameFenRank(squares, rank, file, blank_counter) ==
    LET blanks == IF blank_counter > 0 THEN IntToStr(blank_counter) ELSE <<>>
    IN  IF file = 8 THEN blanks
        ELSE IF squares[file_rank_to_index(file, rank)] # None
            THEN blanks \o <<code(Val(squares[file_rank_to_index(file, rank)]))>>
                    \o GameFenRank(squares, rank, file + 1, 0)
            ELSE GameFenRank(squares, rank, file + 1, blank_counter + 1)

\* the piece placement of Game.fen, from a rank down
RECURSIVE GameFenRanks(_, _)
GameFenRanks(squares, rank) ==
    GameFenRank(squares, rank, 0, 0)
        \o (IF rank > 0 THEN <<"/">> \o GameFenRanks(squares, rank - 1) ELSE <<>>)

\* Game.fen
game_fen(g) ==
    GameFenRanks(GameSquares(g), 7)
        \o (IF g.turn # None
                THEN <<" ", IF g.turn = Some(WHITE) THEN "w" ELSE "b", " ">> \o game_castle_flags(g)
                        \o <<" ">>
                        \o (IF g.en_passant = None THEN <<"-">>
                            ELSE LowerStr(SquareName(Val(g.en_passant))))
                        \o <<" ">> \o IntToStr(g.halfmove_clock)
                        \o <<" ">> \o IntToStr(g.fullmoves)
                ELSE <<>>)

\* Game._short_fen
_short_fen(g) == Join(SubSeq(Split(game_fen(g)), 1, 4))

\* Game._add_repetition
_add_repetition(g) ==
    LET key == _short_fen(g)
    IN  [g EXCEPT !.repetitions =
            IF key \in DOMAIN @ THEN [@ EXCEPT ![key] = @ + 1] ELSE (key :> 1) @@ @]

\* Game._remove_repetition
_remove_repetition(g) ==
    LET key == _short_fen(g)
    IN  [g EXCEPT !.repetitions = IF key \in DOMAIN @ THEN [@ EXCEPT ![key] = @ - 1] ELSE @]

\* Move(start_pos, end_pos, colour, halfmove_clock, prev_en_passant, ...) of
\* src/engine/game.py
GameMoveRecord(start_pos, end_pos, colour, halfmove_clock, prev_en_passant, taken_piece,
               was_castle, was_promoted) ==
    [start_pos |-> start_pos, end_pos |-> end_pos, colour |-> colour,
     halfmove_clock |-> halfmove_clock, prev_en_passant |-> prev_en_passant,
     taken_piece |-> taken_piece, was_castle |-> was_castle, was_promoted |-> was_promoted]

\* piece.move_history.append((start_pos, end_pos))
HistoryAppend(g, piece, start_pos, end_pos) ==
    [g EXCEPT !.lists[g.hist[piece]] = Append(@, <<start_pos, end_pos>>)]

\* del piece.move_history[-1]
HistoryDelete(g, piece) ==
    [g EXCEPT !.lists[g.hist[piece]] = SubSeq(@, 1, Len(@) - 1)]

\* the castling branch of Game._move (simulate being False)
CastleMove(g, start_piece, start_pos, end_pos) ==
    LET colour == ColourOf(start_piece)
        direction == IF File(end_pos) > File(start_pos) THEN 1 ELSE -1
        can == \A i \in 0 .. 1 : ~GameAttackedBy(g, start_pos + direction * (i + 1), colour)
        num_squares == IF direction > 0 THEN 2 ELSE 3
        castle_type == IF direction > 0 THEN KINGSIDE ELSE QUEENSIDE
        moved == HistoryAppend([g EXCEPT !.pos[start_piece] = end_pos], start_piece,
                               start_pos, end_pos)
        rook == CHOOSE p \in moved.pieces :
                    /\ TypeOf(p) = ROOK /\ ColourOf(p) = colour
                    /\ rook_type(moved, p) = Some(castle_type)
    IN  IF can
            THEN [game |-> [moved EXCEPT
                                !.pos[rook] = @ + ((-num_squares) * direction),
                                !.move_history =
                                    Append(@, GameMoveRecord(start_pos, end_pos, colour,
                                                             g.halfmove_clock, g.en_passant,
                                                             None, TRUE, None)),
                                !.halfmove_clock = @ + 1,
                                !.en_passant = None],
                  err |-> "ok"]
            ELSE [game |-> g, err |-> "IllegalMove"]

\* the end of Game._move for a move that leaves the mover's king unattacked:
\* en-passant square, histories, promotion, halfmove clock and repetitions
MoveRecorded(g, moved, start_piece, start_pos, end_pos, taken_piece) ==
    LET colour == ColourOf(start_piece)
        is_pawn == TypeOf(start_piece) = PAWN
        en_passant == IF is_pawn /\ Abs(Rank(end_pos) - Rank(start_pos)) = 2
                          THEN Some(file_rank_to_index(
                                        File(end_pos),
                                        Rank(end_pos) + (IF colour = WHITE THEN -1 ELSE 1)))
                          ELSE None
        listed == HistoryAppend([moved EXCEPT !.en_passant = en_passant], start_piece,
                                start_pos, end_pos)
        promotes == is_pawn /\ Rank(end_pos) = (IF colour = WHITE THEN 7 ELSE 0)
        new_piece == PieceObject(QUEEN, colour, end_pos, Len(g.move_history) + 1)
        promoted ==
            IF promotes
                THEN [listed EXCEPT
                        !.pieces = SetAdd(SetRemove(@, start_piece), new_piece),
                        !.pos = (new_piece :> end_pos) @@ @,
                        !.hist = (new_piece :> listed.hist[start_piece]) @@ @]
                ELSE listed
        logged == [promoted EXCEPT
                       !.move_history =
                           Append(@, GameMoveRecord(start_pos, end_pos, colour,
                                                    g.halfmove_clock, g.en_passant, taken_piece,
                                                    FALSE,
                                                    IF promotes THEN Some(start_piece) ELSE None))]
    IN  IF is_pawn \/ taken_piece # None
            THEN [logged EXCEPT !.halfmove_clock = 0, !.repetitions = <<>>]
            ELSE _add_repetition([logged EXCEPT !.halfmove_clock = @ + 1])

\* the regular branch of Game._move (simulate being False)
RegularMove(g, squares, start_piece, start_pos, end_pos) ==
    LET colour == ColourOf(start_piece)
        by_en_passant == TypeOf(start_piece) = PAWN /\ g.en_passant = Some(end_pos)
        taken_piece ==
            IF by_en_passant
                THEN squares[file_rank_to_index(
                                 File(end_pos),
                                 Rank(end_pos) - (IF colour = WHITE THEN 1 ELSE -1))]
                ELSE squares[end_pos]
        moved == [g EXCEPT
                    !.pieces = IF taken_piece # None THEN SetRemove(@, Val(taken_piece)) ELSE @,
                    !.pos[start_piece] = end_pos]
    IN  IF by_en_passant /\ taken_piece = None THEN [game |-> g, err |-> "KeyError"]
        ELSE IF GameIsInCheck(moved, colour) THEN [game |-> g, err |-> "IllegalMove"]
        ELSE [game |-> MoveRecorded(g, moved, start_piece, start_pos, end_pos, taken_piece),
              err |-> "ok"]

\* Game._move(start_pos, end_pos, simulate=False) for positions in the board,
\* a piece standing on start_pos
_move(g, start_pos, end_pos) ==
    LET squares == GameSquares(g)
        start_piece == Val(squares[start_pos])
    IN  IF start_pos = end_pos THEN [game |-> g, err |-> "IllegalMove"]
        ELSE IF end_pos \notin Piece_legal_moves(g, squares, start_piece)
            THEN [game |-> g, err |-> "IllegalMove"]
        ELSE IF TypeOf(start_piece) = KING /\ Abs(File(end_pos) - File(start_pos)) = 2
            THEN CastleMove(g, start_piece, start_pos, end_pos)
        ELSE RegularMove(g, squares, start_piece, start_pos, end_pos)

\* the end of Game.player_move: the turn passes when _move returns
TurnPassed(r) ==
    IF r.err # "ok" THEN r
    ELSE [r EXCEPT !.game.fullmoves = IF r.game.turn = Some(BLACK) THEN @ + 1 ELSE @,
                   !.game.turn = IF @ = Some(BLACK) THEN Some(WHITE) ELSE Some(BLACK)]

\* Game.player_move
player_move(g, start_pos, end_pos) ==
    LET squares == GameSquares(g)
    IN  IF squares[start_pos] = None THEN [game |-> g, err |-> "IllegalMove"]
        ELSE IF Some(ColourOf(Val(squares[start_pos]))) # g.turn
            THEN [game |-> g, err |-> "IllegalMove"]
        ELSE TurnPassed(_move(g, start_pos, end_pos))

\* undo_move from the point where the moved piece stands on its start position
\* again and a taken piece is back: the rook of a castling move
UndoCastle(g, move) ==
    LET direction == IF File(move.end_pos) > File(move.start_pos) THEN 1 ELSE -1
        rook == GameSquares(g)[move.start_pos + direction]
    IN  IF ~move.was_castle THEN [game |-> g, err |-> "ok"]
        ELSE IF rook = None THEN [game |-> g, err |-> "AttributeError"]
        ELSE [game |-> [g EXCEPT !.pos[Val(rook)] =
                            file_rank_to_index(IF direction > 0 THEN 7 ELSE 0, Rank(@))],
              err |-> "ok"]

\* the pawn of a promotion: the piece that stood on the end position leaves the
\* set, the pawn is put on its start position and into the set
UndoPromotion(r, move, piece) ==
    IF r.err # "ok" \/ move.was_promoted = None THEN r
    ELSE LET pawn == Val(move.was_promoted)
             gone == [r.game EXCEPT !.pieces = SetRemove(@, piece),
                                    !.pos[pawn] = move.start_pos]
         IN  IF \A other \in r.game.pieces : ~PieceEq(piece, other)
                 THEN [game |-> r.game, err |-> "KeyError"]
             ELSE IF Len(HistoryOf(gone, pawn)) = 0 THEN [game |-> gone, err |-> "IndexError"]
             ELSE [game |-> [HistoryDelete(gone, pawn) EXCEPT !.pieces = SetAdd(@, pawn)],
                   err |-> "ok"]

\* the end of undo_move: en-passant square, halfmove clock, repetitions, turn,
\* fullmoves and move_history
UndoCounters(r, move) ==
    IF r.err # "ok" THEN r
    ELSE LET reset == _remove_repetition([r.game EXCEPT
                                             !.en_passant = move.prev_en_passant,
                                             !.halfmove_clock = move.halfmove_clock])
         IN  [game |-> [reset EXCEPT
                           !.turn = Some(move.colour),
                           !.fullmoves = IF move.colour = BLACK THEN @ - 1 ELSE @,
                           !.move_history = SubSeq(@, 1, Len(@) - 1)],
              err |-> "ok"]

\* undo_move when the piece on the end position of the last move is found
UndoPiece(g, move, piece) ==
    LET back == [g EXCEPT !.pos[piece] = move.start_pos]
        shorter == IF Len(HistoryOf(back, piece)) > 0 THEN HistoryDelete(back, piece) ELSE back
        retaken == IF move.taken_piece # None
                       THEN [shorter EXCEPT !.pieces = SetAdd(@, Val(move.taken_piece))]
                       ELSE shorter
    IN  UndoCounters(UndoPromotion(UndoCastle(retaken, move), move, piece), move)

\* Game.undo_move: the Game it leaves and the exception raised, if any
undo_move(g) ==
    IF Len(g.move_history) = 0 THEN [game |-> g, err |-> "ok"]
    ELSE LET move == g.move_history[Len(g.move_history)]
             piece == GameSquares(g)[move.end_pos]
         IN  IF piece = None THEN [game |-> g, err |-> "AttributeError"]
             ELSE UndoPiece(g, move, Val(piece))

\* the games played, as the move strings of their moves: two white pawns
\* promoting on h8 one after the other; both players castling on the king's
\* side; castling on the queen's side and an en-passant capture
A6B8 == <<"a", "6", "b", "8">>
B8A6 == <<"b", "8", "a", "6">>
A7A6 == <<"a", "7", "a", "6">>
A6A5 == <<"a", "6", "a", "5">>
A5A4 == <<"a", "5", "a", "4">>
GAME_TWO_PROMOTIONS ==
    <<<<"h", "2", "h", "4">>, B8A6, <<"h", "4", "h", "5">>, A6B8, <<"h", "5", "h", "6">>, B8A6,
      <<"h", "6", "g", "7">>, A6B8, <<"g", "7", "h", "8">>, B8A6, <<"g", "2", "g", "4">>, A6B8,
      <<"g", "4", "g", "5">>, B8A6, <<"g", "5", "g", "6">>, A6B8, <<"g", "6", "h", "7">>, B8A6,
      <<"h", "8", "g", "8">>, A6B8, <<"h", "7", "h", "8">>>>
GAME_KINGSIDE ==
    <<E2E4, E7E5, G1F3, A7A6, F1C4, A6A5, E1G1, G8F6, <<"a", "2", "a", "3">>,
      <<"f", "8", "c", "5">>, <<"a", "3", "a", "4">>, <<"e", "8", "g", "8">>>>
GAME_QUEENSIDE ==
    <<D2D4, D7D5, <<"c", "1", "f", "4">>, A7A6, <<"b", "1", "c", "3">>, A6A5,
      <<"d", "1", "d", "2">>, A5A4, <<"e", "1", "c", "1">>, <<"h", "7", "h", "6">>,
      <<"b", "2", "b", "4">>, <<"a", "4", "b", "3">>>>

\* position.from_coord for the two squares of a move string
Coords(s) == <<from_coord(SubSeq(s, 1, 2)), from_coord(SubSeq(s, 3, 4))>>

GameLines ==
    {[k \in DOMAIN l |-> Coords(l[k])] : l \in {GAME_TWO_PROMOTIONS, GAME_KINGSIDE, GAME_QUEENSIDE}}

\* the most positions counted in repetitions, each as often as it is counted
MaxGameRepetitions == 2

\* the sum of the counts of repetitions
RECURSIVE Counted(_)
Counted(repetitions) ==
    IF DOMAIN repetitions = {} THEN 0
    ELSE LET key == CHOOSE k \in DOMAIN repetitions : TRUE
         IN  repetitions[key]
                + Counted([k \in DOMAIN repetitions \ {key} |-> repetitions[k]])

\* the (start_pos, end_pos) of the moves in move_history
Played(g) ==
    [k \in DOMAIN g.move_history |-> <<g.move_history[k].start_pos, g.move_history[k].end_pos>>]

\* Game()
NewGame == GameOf(game_from_fen(STARTING_STATE))

InitGame ==
    /\ board = NewBoard(STARTING_STATE, FALSE)
    /\ fen_in = STARTING_STATE
    /\ op = "Game"
    /\ err = "ok"
    /\ NoTraversal
    /\ cmd = <<>> /\ stdout = <<>> /\ uci_in = <<>> /\ parsed = <<>>
    /\ game = NewGame /\ ret = <<>> /\ pool = <<>>

\* game.player_move(start_pos, end_pos) with the next move of one of the games
PlayerMove ==
    /\ err \in {"ok", "IllegalMove"}
    /\ Counted(game.repetitions) < MaxGameRepetitions
    /\ \E l \in GameLines :
        /\ Len(game.move_history) < Len(l)
        /\ SubSeq(l, 1, Len(game.move_history)) = Played(game)
        /\ LET r == player_move(game, l[Len(game.move_history) + 1][1],
                                l[Len(game.move_history) + 1][2])
           IN  game' = r.game /\ err' = r.err
    /\ op' = "player_move"
    /\ UNCHANGED <<board, fen_in, pc, depth, frames, counter, best_move, cmd, stdout, uci_in,
                   parsed, ret, pool>>

\* game.undo_move(); an exception other than IllegalMove ends the program
UndoMove ==
    /\ err \in {"ok", "IllegalMove"}
    /\ LET r == undo_move(game)
       IN  game' = r.game /\ err' = r.err
    /\ op' = "undo_move"
    /\ UNCHANGED <<board, fen_in, pc, depth, frames, counter, best_move, cmd, stdout, uci_in,
                   parsed, ret, pool>>

NextGame == PlayerMove \/ UndoMove

SpecGame == InitGame /\ [][NextGame]_vars

\* the Game after the moves of steps have been made one after the other
RECURSIVE Replayed(_, _)
Replayed(g, steps) ==
    IF steps = <<>> THEN g
    ELSE Replayed(player_move(g, Head(steps)[1], Head(steps)[2]).game, Tail(steps))

\* the FEN that held before the last move of g was made
FenBeforeLast(g) ==
    game_fen(Replayed(NewGame, SubSeq(Played(g), 1, Len(g.move_history) - 1)))

\* C25: in a game played from the initial position with player_move, each
\* undo_move returns and leaves the FEN that held before the move it undoes,
\* with that move gone from move_history; when no move is left the FEN is the
\* starting FEN
C25_UndoRestoresFen ==
    [][op' = "undo_move" /\ game.move_history # <<>>
        => /\ err' = "ok"
           /\ game_fen(game') = FenBeforeLast(game)
           /\ Len(game'.move_history) = Len(game.move_history) - 1
           /\ (game'.move_history = <<>> => game_fen(game') = STARTING_STATE)]_vars

\* undo_move has been called in a game in which a pawn was promoted
C25_Witness ==
    /\ op = "undo_move"
    /\ \E k \in DOMAIN game.move_history : game.move_history[k].was_promoted # None

\* the pieces of the Game stand on different squares
GameSquaresDistinct ==
    \A p, q \in game.pieces : p # q => game.pos[p] # game.pos[q]

\* every move of the games is accepted by player_move
GameMovesAccepted == op = "player_move" => err = "ok"

-----------------------------------------------------------------------------
(* Positions constructed from FEN strings that place few pieces: Board(fen)  *)
(* of src/game/board.py and Game(fen) of src/engine/game.py                  *)

\* the piece letters of FEN
FenLetters == {"K", "Q", "R", "B", "N", "P", "k", "q", "r", "b", "n", "p"}

\* first ranks with no piece, with one piece on the a, b or h file, and with
\* two pieces
SparseRanks ==
    {<<"8">>}
    \cup {<<p, "7">> : p \in FenLetters}
    \cup {<<"1", p, "6">> : p \in FenLetters}
    \cup {<<"7", p>> : p \in FenLetters}
    \cup {<<p, "6", q>> : p \in {"K", "R"}, q \in {"k", "q", "p"}}

\* 8/8/8/8/8/8/8/<first rank> w - - 0 1
SparseFen(first_rank) ==
    <<"8", "/", "8", "/", "8", "/", "8", "/", "8", "/", "8", "/", "8", "/">> \o first_rank
        \o <<" ", "w", " ", "-", " ", "-", " ", "0", " ", "1">>

SparseFens == {SparseFen(r) : r \in SparseRanks} \cup {STARTING_STATE, FEN_KINGS}

\* board = Board(f)
InitSparse == \E f \in SparseFens : Construct(f, FALSE) /\ Idle

\* game = Game(fen_in): from_fen returns the parts of the Game or raises
ConstructGame ==
    /\ op = "Board"
    /\ LET parts == game_from_fen(fen_in)
       IN  /\ err' = parts.err
           /\ game' = IF parts.err = "ok" THEN GameOf(parts) ELSE game
    /\ op' = "Game"
    /\ UNCHANGED <<board, fen_in, pc, depth, frames, counter, best_move, cmd, stdout, uci_in,
                   parsed, ret, pool>>

\* board = Board(f) for another FEN string
ConstructBoard ==
    /\ op = "Game"
    /\ \E f \in SparseFens :
        /\ board' = NewBoard(f, FALSE)
        /\ fen_in' = f
    /\ op' = "Board"
    /\ err' = "ok"
    /\ UNCHANGED <<pc, depth, frames, counter, best_move, cmd, stdout, uci_in, parsed, game, ret, pool>>

NextSparse == ConstructGame \/ ConstructBoard

SpecSparse == InitSparse /\ [][NextSparse]_vars

\* the number of pieces the placement field of a FEN string names
PiecesNamed(f) == Cardinality({i \in DOMAIN Split(f)[1] : Split(f)[1][i] \in FenLetters})

\* C24: constructing a position, Board or Game, from a FEN string that places
\* fewer than two pieces ends with an error
C24_FewPiecesRejected ==
    op \in {"Board", "Game"} /\ PiecesNamed(fen_in) < 2 => err # "ok"

\* a Board has been constructed from a FEN string that places one piece
C24_Witness == op = "Board" /\ PiecesNamed(fen_in) = 1

\* Game(fen) raises ValueError exactly when the FEN string places fewer than two
\* pieces
GameRejectsFewPieces ==
    op = "Game" => (err = "ValueError" <=> PiecesNamed(fen_in) < 2)

-----------------------------------------------------------------------------
(* The king table of weighted_value                                          *)

\* queens on few pieces:  4k3/8/8/8/8/8/8/Q3K2q w - - 0 1
FEN_TWO_QUEENS ==
    <<"4","k","3","/","8","/","8","/","8","/","8","/","8","/","8","/","Q","3","K","2",
      "q"," ","w"," ","-"," ","-"," ","0"," ","1">>

\* a queen that can be taken, five pieces besides pawns and kings:
\*   4k3/8/8/8/8/8/2n5/RQ2K1nr w - - 0 1
FEN_QUEEN_EN_PRISE ==
    <<"4","k","3","/","8","/","8","/","8","/","8","/","8","/","2","n","5","/","R","Q",
      "2","K","1","n","r"," ","w"," ","-"," ","-"," ","0"," ","1">>

EvalFens ==
    {FEN_KINGS, FEN_TWO_QUEENS, FEN_QUEEN_EN_PRISE}

InitEval == \E f \in EvalFens : Construct(f, FALSE) /\ Idle

\* board.value, board.relative_value, board.weighted_value
Evaluate ==
    /\ \E name \in {"value", "relative_value", "weighted_value"} :
        /\ op' = name
        /\ ret' = Some(CASE name = "value" -> value(board)
                         [] name = "relative_value" -> relative_value(board)
                         [] OTHER -> weighted_value(board))
    /\ err' = "ok"
    /\ UNCHANGED <<board, fen_in, pc, depth, frames, counter, best_move, cmd, stdout, uci_in,
                   parsed, game, pool>>

NextEval == MakeLegalMove \/ UnmakeMove \/ Evaluate

SpecEval == InitEval /\ [][NextEval]_vars

\* neither side has a queen, or at most four knights, bishops, rooks and queens
\* are on the board
LateGame(b) ==
    \/ all_queens(b) = {}
    \/ bit_count(all_queens(b) \cup all_rooks(b) \cup all_bishops(b) \cup all_knights(b)) <= 4

\* C31: weighted_value adds the endgame king piece-square table for both kings
\* exactly when the late-game condition holds (neither side has a queen, or the
\* number of knights, bishops, rooks and queens on the board is at most 4), and
\* the ordinary king table otherwise.
C31_KingTable ==
    op = "weighted_value"
        => Val(ret) = WeightedWith(board, IF LateGame(board)
                                          THEN KING_LATE_GAME_POSITION_VALUES
                                          ELSE KING_POSITION_VALUES)

\* weighted_value returned in a position without queens and the two tables
\* give its kings different values
C31_Witness ==
    /\ op = "weighted_value"
    /\ all_queens(board) = {}
    /\ WeightedWith(board, KING_LATE_GAME_POSITION_VALUES)
            # WeightedWith(board, KING_POSITION_VALUES)

-----------------------------------------------------------------------------
(* The score of a node of the search tree                                    *)

NodeFens == {FEN_STALEMATING, FEN_FORCED_MATE, FEN_CHECKMATE, FEN_STALEMATE}

NodeDepths == 1 .. 2

InitNode == \E f \in NodeFens : Construct(f, FALSE) /\ Idle

\* the recursive call returned r
NodeReturned(r, name, d) ==
    board' = r.board /\ err' = r.err /\ ret' = Some(r.value) /\ op' = name /\ depth' = d

\* _negamax(board, depth, 0), as negamax calls it after each of its moves
NegamaxNode ==
    /\ \E d \in NodeDepths : NodeReturned(_negamax(board, d, 0), "_negamax", d)
    /\ UNCHANGED <<fen_in, pc, frames, counter, best_move, cmd, stdout, uci_in, parsed, game, pool>>

\* _alpha_beta_max(board, depth, alpha, beta, player, board_eval, 0), as
\* _get_best_move and _alpha_beta_min call it after a move of player
AlphaBetaMaxNode ==
    /\ \E d \in NodeDepths, board_eval \in BoardEvals :
            NodeReturned(_alpha_beta_max(board, d, LOW_BOUND, HIGH_BOUND, ~board.turn,
                                         board_eval, 0),
                         "_alpha_beta_max", d)
    /\ UNCHANGED <<fen_in, pc, frames, counter, best_move, cmd, stdout, uci_in, parsed, game, pool>>

\* _alpha_beta_min(board, depth, alpha, beta, player, board_eval, 0), as
\* _alpha_beta_max calls it after a move of the opponent of player
AlphaBetaMinNode ==
    /\ \E d \in NodeDepths, board_eval \in BoardEvals :
            NodeReturned(_alpha_beta_min(board, d, LOW_BOUND, HIGH_BOUND, board.turn,
                                         board_eval, 0),
                         "_alpha_beta_min", d)
    /\ UNCHANGED <<fen_in, pc, frames, counter, best_move, cmd, stdout, uci_in, parsed, game, pool>>

NextNode ==
    MakeSearchMove \/ UnmakeMove \/ NegamaxNode \/ AlphaBetaMaxNode \/ AlphaBetaMinNode

SpecNode == InitNode /\ [][NextNode]_vars

NodeNames == {"_negamax", "_alpha_beta_max", "_alpha_beta_min"}

\* the score of the node for the side to move at it: _negamax returns it,
\* _alpha_beta_max and _alpha_beta_min return the score for the opponent of
\* player, who is to move at the nodes of _alpha_beta_max
MoverScore(name, v) == IF name = "_alpha_beta_min" THEN v * (-1) ELSE v

\* the worst outcome for the mover at a checkmate, the draw score at a stalemate
NoMoveScore(b, score) ==
    /\ is_checkmate(b) => score <= LOW_BOUND
    /\ is_stalemate(b) => score = 0

\* C32: in the search, an interior node at which the side to move has no legal
\* move is scored as the worst outcome for that side when it is checkmated and
\* as the draw score 0 when it is stalemated; in particular a line in which the
\* searching player itself is checkmated is never scored as favourable to the
\* searching player.
C32_NoMoveScore ==
    (op \in NodeNames /\ err = "ok" /\ Len(legal_moves(board)) = 0)
        => NoMoveScore(board, MoverScore(op, Val(ret)))

\* _alpha_beta_min returned at a node where player is to move and is checkmated
C32_Witness ==
    /\ op = "_alpha_beta_min" /\ err = "ok"
    /\ is_checkmate(board)
    /\ Len(board.history) > 0

\* the searching player is checkmated at the node and the node is scored in
\* its favour
C32_MatedScoredHigh ==
    /\ op = "_alpha_beta_min" /\ err = "ok"
    /\ is_checkmate(board)
    /\ MoverScore(op, Val(ret)) > HIGH_BOUND

-----------------------------------------------------------------------------
(* The three searches compared                                               *)

\* the three searches, run on the same position with the material evaluator to
\* the same depth, return the same move
SameRootMove(b, d) ==
    /\ minimax(b, d).move = negamax(b, d).move
    /\ alpha_beta(b, d, "simple_eval").move = negamax(b, d).move

\* C33: for the same position, the same evaluator (material value) and the same
\* depth >= 1, minimax, negamax and alpha_beta return the same root move,
\* including in positions where some line within the search depth ends in
\* checkmate or stalemate; pruning never changes the chosen move.
C33_SameRootMove ==
    [][op' \in SearchNames /\ err' = "ok" => SameRootMove(board, depth')]_vars

\* a search of depth two or more has returned in a position where the three
\* searches choose the same move
C33_Witness ==
    /\ op \in SearchNames /\ err = "ok" /\ depth >= 2
    /\ best_move # None
    /\ SameRootMove(board, depth)

-----------------------------------------------------------------------------
(* alpha_beta with its pool of worker processes                              *)

\* a king against king and rook:  4k2r/8/8/8/8/8/8/4K3 w k - 0 1
FEN_BARE_KING ==
    <<"4","k","2","r","/","8","/","8","/","8","/","8","/","8","/","8","/","4","K","3",
      " ","w"," ","k"," ","-"," ","0"," ","1">>

\* the rook leaves h8 and returns to it
PoolLine ==
    <<from_uci(<<"e","1","f","2">>), from_uci(<<"h","8","f","8">>),
      from_uci(<<"f","2","g","2">>), from_uci(<<"f","8","h","8">>)>>

\* multiprocessing.cpu_count()
PoolWorkers == 2

PoolDepths == 1 .. MaxDepth

InitPool == Construct(FEN_BARE_KING, FALSE) /\ Idle

\* board.make_move(m) for the next move m of the line
MakeLineMove ==
    /\ pc # "starmap"
    /\ Len(board.history) < Len(PoolLine)
    /\ Made(make_move(board, PoolLine[Len(board.history) + 1]))
    /\ op' = "make_move"
    /\ UNCHANGED <<fen_in, pc, depth, frames, counter, best_move, cmd, stdout, uci_in, parsed, game, ret, pool>>

\* jobs.append((new_board, depth, move, board_eval)) for move in legal_moves
Jobs(b, depth_, board_eval, moves) ==
    [i \in DOMAIN moves |->
        [new_board |-> NewBoard(fen(b), FALSE), depth |-> depth_, move |-> moves[i],
         board_eval |-> board_eval]]

\* pool.starmap(_get_best_move, jobs) before any worker has taken a job
Starmap(jobs) ==
    [jobs |-> jobs, taken |-> 0, busy |-> [w \in 1 .. PoolWorkers |-> 0],
     result |-> [i \in DOMAIN jobs |-> None]]

\* alpha_beta(board, depth, board_eval) up to pool.starmap(_get_best_move, jobs)
AlphaBetaStart ==
    /\ pc # "starmap"
    /\ \E d \in PoolDepths, board_eval \in BoardEvals :
        /\ pool' = Starmap(Jobs(board, d, board_eval, legal_moves(board)))
        /\ depth' = d
    /\ pc' = "starmap"
    /\ op' = "alpha_beta"
    /\ err' = "ok"
    /\ best_move' = None
    /\ UNCHANGED <<board, fen_in, frames, counter, cmd, stdout, uci_in, parsed, game, ret>>

\* an idle worker process takes the next job of the task queue
WorkerTake ==
    /\ pc = "starmap"
    /\ pool.taken < Len(pool.jobs)
    /\ \E w \in 1 .. PoolWorkers :
        /\ pool.busy[w] = 0
        /\ pool' = [pool EXCEPT !.taken = @ + 1, !.busy[w] = pool.taken + 1]
    /\ UNCHANGED <<board, op, err, fen_in, pc, depth, frames, counter, best_move, cmd, stdout, uci_in, parsed, game, ret>>

\* what the worker sends back: (_base_move, _value, _counter) or the exception,
\* and the Board of the job as the worker leaves it
JobDone(job, r) ==
    [move |-> job.move, value |-> r.value * (-1), counter |-> r.counter, err |-> r.err,
     board |-> IF r.err = "ok" THEN unmake_move(r.board) ELSE r.board]

\* a worker process returns from _get_best_move(*job)
WorkerReturn ==
    /\ pc = "starmap"
    /\ \E w \in 1 .. PoolWorkers :
        /\ pool.busy[w] # 0
        /\ pool' = [pool EXCEPT
                        !.busy[w] = 0,
                        !.result[pool.busy[w]] =
                            Some(JobDone(pool.jobs[pool.busy[w]],
                                         _get_best_move(pool.jobs[pool.busy[w]].new_board,
                                                        pool.jobs[pool.busy[w]].depth,
                                                        pool.jobs[pool.busy[w]].move,
                                                        pool.jobs[pool.busy[w]].board_eval)))]
    /\ UNCHANGED <<board, op, err, fen_in, pc, depth, frames, counter, best_move, cmd, stdout, uci_in, parsed, game, ret>>

RECURSIVE PoolSelect(_, _, _, _)
\* alpha_beta: for move, value, sub_counter in result: if value > score
PoolSelect(result, i, score, best) ==
    IF i > Len(result) THEN best
    ELSE IF Val(result[i]).value > score
         THEN PoolSelect(result, i + 1, Val(result[i]).value, Some(Val(result[i]).move))
         ELSE PoolSelect(result, i + 1, score, best)

\* the exception starmap raises again in the driver: that of the first job that
\* raised one
PoolError(result) ==
    IF \E i \in DOMAIN result : Val(result[i]).err # "ok"
    THEN Val(result[CHOOSE i \in DOMAIN result :
                        /\ Val(result[i]).err # "ok"
                        /\ \A j \in 1 .. i - 1 : Val(result[j]).err = "ok"]).err
    ELSE "ok"

\* pool.starmap returns once every job has a result; alpha_beta chooses
AlphaBetaChoose ==
    /\ pc = "starmap"
    /\ \A i \in DOMAIN pool.result : pool.result[i] # None
    /\ err' = PoolError(pool.result)
    /\ best_move' = IF PoolError(pool.result) = "ok"
                    THEN PoolSelect(pool.result, 1, LOW_BOUND, None)
                    ELSE best_move
    /\ pc' = "done"
    /\ UNCHANGED <<board, op, fen_in, depth, frames, counter, cmd, stdout, uci_in, parsed, game, ret, pool>>

NextPool == MakeLineMove \/ AlphaBetaStart \/ WorkerTake \/ WorkerReturn \/ AlphaBetaChoose

SpecPool == InitPool /\ [][NextPool]_vars

\* the root moves evaluated one after another by _get_best_move on the caller's
\* own Board, and the choice among them
OwnChoice(b, depth_, board_eval) ==
    AlphaBetaSelect(b, b, depth_, board_eval, legal_moves(b), 1, LOW_BOUND, None)

\* no worker is running and every job has its result
AllReturned(p) ==
    /\ \A w \in DOMAIN p.busy : p.busy[w] = 0
    /\ \A i \in DOMAIN p.result : p.result[i] # None

\* a job no worker has taken holds the Board cloned from the caller's FEN,
\* whatever the workers have done to the Boards of their own jobs
JobsApart(b, p) ==
    \A i \in DOMAIN p.jobs :
        i > p.taken => p.jobs[i].new_board = NewBoard(fen(b), FALSE)

\* C34: in the root-parallel alpha_beta, each root move is evaluated by a worker
\* on its own Board cloned from the caller's FEN, workers share no mutable
\* state, the driver chooses only after all workers have returned, and the
\* chosen move is the same for every scheduling and completion order of the
\* workers and equals the move obtained by evaluating the root moves one after
\* another on the caller's own position.
C34_ParallelChoice ==
    /\ pc = "starmap" => JobsApart(board, pool)
    /\ (pc = "done" /\ op = "alpha_beta")
        => /\ AllReturned(pool)
           /\ Len(pool.jobs) > 0
                => best_move = OwnChoice(board, depth, pool.jobs[1].board_eval).move

\* alpha_beta has chosen a move among the results of two jobs or more
C34_Witness ==
    /\ pc = "done" /\ op = "alpha_beta" /\ err = "ok" /\ depth >= 2
    /\ best_move # None
    /\ Len(pool.jobs) >= 2

\* the part of C34 that does not depend on the clone: the driver chooses after
\* all workers have returned and the choice is that of alpha_beta run job by
\* job, whatever the order in which the workers took and returned the jobs
PoolOrderFree ==
    /\ pc = "starmap" => JobsApart(board, pool)
    /\ (pc = "done" /\ op = "alpha_beta")
        => /\ AllReturned(pool)
           /\ Len(pool.jobs) > 0
                => best_move = alpha_beta(board, depth, pool.jobs[1].board_eval).move

-----------------------------------------------------------------------------
(* Ray attacks                                                               *)

RayFens == {STARTING_STATE, FEN_QUEEN_EN_PRISE, FEN_PIN_DOUBLED, FEN_CASTLING}

\* the square arguments: the squares of the a, d, e and h files
RaySquares == {sq \in SQUARES : File(sq) \in {0, 3, 4, 7}}

InitRays == \E f \in RayFens : Construct(f, FALSE) /\ Idle

\* the directions arguments: one direction, or those of a rook or a bishop
RayDirections ==
    {{Directions[i]} : i \in 1 .. 8} \cup {CardinalDirections, DiagonalDirections}

\* the ignore arguments: none, the kings (as legal_moves passes), the rooks,
\* every piece
RayIgnores(b) == {BB_EMPTY, all_kings(b), all_rooks(b), b.occupied}

\* the call and what it returned
RayCall(square, directions, ignore, moves) ==
    [square |-> square, directions |-> directions, ignore |-> ignore, moves |-> moves]

\* board._attack_rays_from_square(square, directions, ignore)
AttackRays ==
    /\ \E square \in RaySquares, directions \in RayDirections, ignore \in RayIgnores(board) :
        ret' = Some(RayCall(square, directions, ignore,
                            attack_rays_from_square(board, square, directions, ignore)))
    /\ op' = "_attack_rays_from_square"
    /\ err' = "ok"
    /\ UNCHANGED <<board, fen_in, pc, depth, frames, counter, best_move, cmd, stdout, uci_in, parsed, game, pool>>

NextRays == AttackRays

SpecRays == InitRays /\ [][NextRays]_vars

\* the step of a direction in files and in ranks
FileStep(d) ==
    IF d \in {NORTHEAST, EAST, SOUTHEAST} THEN 1
    ELSE IF d \in {NORTHWEST, WEST, SOUTHWEST} THEN -1 ELSE 0

RankStep(d) ==
    IF d \in {NORTHWEST, NORTH, NORTHEAST} THEN 1
    ELSE IF d \in {SOUTHWEST, SOUTH, SOUTHEAST} THEN -1 ELSE 0

\* the squares reached from (file, rank) step by step, up to and including the
\* first square of stop, or to the edge of the board
RECURSIVE SquaresReached(_, _, _, _, _)
SquaresReached(file, rank, file_step, rank_step, stop) ==
    IF ~InBoard(file + file_step, rank + rank_step) THEN {}
    ELSE {file_rank_to_index(file + file_step, rank + rank_step)}
            \cup IF file_rank_to_index(file + file_step, rank + rank_step) \in stop
                 THEN {}
                 ELSE SquaresReached(file + file_step, rank + rank_step, file_step,
                                     rank_step, stop)

RayReached(b, call, d) ==
    SquaresReached(File(call.square), Rank(call.square), FileStep(d), RankStep(d),
                   b.occupied \ call.ignore)

\* C35: for every square s, direction d, occupancy and ignore mask, the ray
\* attack computed by _attack_rays_from_square equals the set of squares reached
\* from s along d up to and including the first occupied square that is not in
\* the ignore mask (all squares to the board edge when there is none); squares
\* in the ignore mask never block.
C35_RayAttack ==
    op = "_attack_rays_from_square"
        => Val(ret).moves = UNION {RayReached(board, Val(ret), d) : d \in Val(ret).directions}

\* a ray to the south that passes an ignored piece and ends on a second piece
C35_Witness ==
    /\ op = "_attack_rays_from_square"
    /\ Val(ret).directions = {SOUTH}
    /\ \E sq \in Val(ret).moves : sq \in Val(ret).ignore /\ sq \in board.occupied
    /\ \E sq \in Val(ret).moves : sq \notin Val(ret).ignore /\ sq \in board.occupied

-----------------------------------------------------------------------------
(* The end of the game: raise_if_game_over and is_game_over                  *)

\* the position of test_checkmate with fifty moves on the clock:
\* 3q1bRk/5p2/5N1p/8/8/8/2r2PPP/6K1 b - - 50 1
FEN_CHECKMATE_FIFTY ==
    <<"3","q","1","b","R","k","/","5","p","2","/","5","N","1","p","/","8","/","8","/",
      "8","/","2","r","2","P","P","P","/","6","K","1"," ","b"," ","-"," ","-"," ","5",
      "0"," ","1">>

\* test_fifty_move_draw: the initial position with 49 on the clock
FEN_CLOCK_49 ==
    <<"r","n","b","q","k","b","n","r","/","p","p","p","p","p","p","p","p","/","8","/",
      "8","/","8","/","8","/","P","P","P","P","P","P","P","P","/","R","N","B","Q","K",
      "B","N","R"," ","w"," ","K","Q","k","q"," ","-"," ","4","9"," ","1">>

OverFens ==
    {STARTING_STATE, FEN_CLOCK_49, FEN_CHECKMATE_FIFTY, FEN_CHECKMATE, FEN_STALEMATE,
     FEN_KINGS}

InitOver == \E f \in OverFens : Construct(f, TRUE) /\ Idle

\* the tests of raise_if_game_over with checkmate tested first
raise_if_game_over_checkmate_first(b) ==
    IF is_checkmate(b) THEN "Checkmate"
    ELSE IF b.halfmove_clock >= 50 THEN "FiftyMoveDraw"
    ELSE IF has_insufficient_material(b) THEN "InsufficientMaterial"
    ELSE IF has_threefold_repetition(b) THEN "ThreefoldRepetition"
    ELSE IF is_stalemate(b) THEN "Stalemate"
    ELSE "ok"

\* Board.raise_if_game_over: the exception raised, "ok" when it returns
raise_if_game_over(b) ==
    IF b.halfmove_clock >= 50 THEN "FiftyMoveDraw"
    ELSE IF has_insufficient_material(b) THEN "InsufficientMaterial"
    ELSE IF has_threefold_repetition(b) THEN "ThreefoldRepetition"
    ELSE IF is_checkmate(b) THEN "Checkmate"
    ELSE IF is_stalemate(b) THEN "Stalemate"
    ELSE "ok"

\* Board.is_game_over
is_game_over(b) ==
    LET has_legal_move == Len(legal_moves(b)) > 0
    IN  IF b.halfmove_clock >= 50 THEN TRUE
        ELSE IF has_insufficient_material(b) THEN TRUE
        ELSE IF ~has_legal_move THEN TRUE
        ELSE FALSE

\* board.raise_if_game_over()
RaiseIfGameOver ==
    /\ err' = raise_if_game_over(board)
    /\ op' = "raise_if_game_over"
    /\ UNCHANGED <<board, fen_in, pc, depth, frames, counter, best_move, cmd, stdout, uci_in, parsed, game, ret, pool>>

\* board.is_game_over
IsGameOver ==
    /\ ret' = Some(is_game_over(board))
    /\ op' = "is_game_over"
    /\ err' = "ok"
    /\ UNCHANGED <<board, fen_in, pc, depth, frames, counter, best_move, cmd, stdout, uci_in, parsed, game, pool>>

\* the moves played: each side moves its king's knight out and back
OverUcis == {<<"g","1","f","3">>, <<"f","3","g","1">>, <<"g","8","f","6">>, <<"f","6","g","8">>}

\* the longest game played: the position after the first move is stored for the
\* third time by the ninth move
MaxOverPly == 9

\* the moves of legal_moves that are among OverUcis
OverMoves(moves) ==
    {moves[i] : i \in {j \in DOMAIN moves : \E u \in OverUcis : moves[j] = from_uci(u)}}

\* board.make_move(m) for a move m of legal_moves that is one of OverUcis
MakeOverMove ==
    /\ Len(board.history) < MaxOverPly
    /\ \E m \in OverMoves(legal_moves(board)) : Made(make_move(board, m))
    /\ op' = "make_move"
    /\ UNCHANGED <<fen_in, pc, depth, frames, counter, best_move, cmd, stdout, uci_in, parsed, game, ret, pool>>

NextOver == MakeOverMove \/ UnmakeMove \/ RaiseIfGameOver \/ IsGameOver

SpecOver == InitOver /\ [][NextOver]_vars

\* the end conditions in the order fifty-move, insufficient material,
\* threefold repetition, checkmate, stalemate
EndConditions(b) ==
    <<b.halfmove_clock >= 50, has_insufficient_material(b), has_threefold_repetition(b),
      is_checkmate(b), is_stalemate(b)>>

EndExceptions ==
    <<"FiftyMoveDraw", "InsufficientMaterial", "ThreefoldRepetition", "Checkmate",
      "Stalemate">>

\* the exception of the first condition that holds, "ok" when none holds
FirstException(conditions) ==
    IF \A i \in DOMAIN conditions : ~conditions[i] THEN "ok"
    ELSE EndExceptions[CHOOSE i \in DOMAIN conditions :
                            conditions[i] /\ \A j \in 1 .. i - 1 : ~conditions[j]]

\* C36: raise_if_game_over raises the exception of the first end condition that
\* holds, in the order fifty-move (halfmove_clock >= 50), insufficient material,
\* threefold repetition, checkmate, stalemate, and returns normally exactly
\* when none holds; a checkmate with halfmove_clock >= 50 raises FiftyMoveDraw;
\* the probe leaves the position as it was.
C36_RaiseOrder ==
    [][op' = "raise_if_game_over" =>
        /\ err' = FirstException(EndConditions(board))
        /\ (err' = "ok") = (\A i \in 1 .. 5 : ~EndConditions(board)[i])
        /\ (is_checkmate(board) /\ board.halfmove_clock >= 50 => err' = "FiftyMoveDraw")
        /\ board' = board]_vars

\* a checkmate with fifty moves on the clock was probed and raised FiftyMoveDraw
C36_Witness ==
    /\ op = "raise_if_game_over"
    /\ err = "FiftyMoveDraw"
    /\ is_checkmate(board)
    /\ board.halfmove_clock >= 50

\* C37: is_game_over is true exactly when raise_if_game_over raises.
C37_ProbesAgree ==
    op = "is_game_over" => (Val(ret) <=> raise_if_game_over(board) # "ok")

\* is_game_over returned False in a position repeated three times, where
\* raise_if_game_over raises ThreefoldRepetition
C37_Witness ==
    /\ op = "is_game_over"
    /\ ret = Some(FALSE)
    /\ has_threefold_repetition(board)
    /\ raise_if_game_over(board) = "ThreefoldRepetition"

-----------------------------------------------------------------------------
(* Piece counts under make_move                                              *)

\* the bitboard of one piece type and colour
TypeBitboard(b, piece_type, colour) ==
    IF piece_type = PAWN THEN b.pawns[colour]
    ELSE IF piece_type = ROOK THEN b.rooks[colour]
    ELSE IF piece_type = KNIGHT THEN b.knights[colour]
    ELSE IF piece_type = BISHOP THEN b.bishops[colour]
    ELSE IF piece_type = QUEEN THEN b.queens[colour]
    ELSE b.kings[colour]

\* the number of pieces of one colour, counted type by type
RECURSIVE PieceCountFrom(_, _, _)
PieceCountFrom(b, colour, i) ==
    IF i > Len(PIECE_TYPES) THEN 0
    ELSE bit_count(TypeBitboard(b, PIECE_TYPES[i], colour)) + PieceCountFrom(b, colour, i + 1)

PieceCount(b, colour) == PieceCountFrom(b, colour, 1)

\* the move takes a piece: its target holds a piece of the opponent, or a pawn
\* changes file onto the en-passant square
IsCapture(b, move) ==
    \/ move.to_square \in b.occupied_colour[~b.turn]
    \/ /\ move.from_square \in b.pawns[b.turn]
       /\ b.en_passant_sq = Some(move.to_square)
       /\ File(move.from_square) # File(move.to_square)

\* the count of one type of the mover's pieces after the move: a promoting
\* pawn is replaced by the promoted piece, nothing else changes
MoverTypeCount(b, move, piece_type) ==
    bit_count(TypeBitboard(b, piece_type, b.turn))
        + (IF move.promotion # None /\ move.from_square \in b.pawns[b.turn]
           THEN (IF piece_type = Val(move.promotion) THEN 1 ELSE 0)
                    - (IF piece_type = PAWN THEN 1 ELSE 0)
           ELSE 0)

\* what make_move(move) on b may leave in after as far as the counts go
CountsKept(b, move, after) ==
    /\ PieceCount(after, b.turn) = PieceCount(b, b.turn)
    /\ PieceCount(after, ~b.turn)
            = PieceCount(b, ~b.turn) - (IF IsCapture(b, move) THEN 1 ELSE 0)
    /\ \A i \in DOMAIN PIECE_TYPES :
        /\ bit_count(TypeBitboard(after, PIECE_TYPES[i], b.turn))
                = MoverTypeCount(b, move, PIECE_TYPES[i])
        /\ bit_count(TypeBitboard(after, PIECE_TYPES[i], ~b.turn))
                <= bit_count(TypeBitboard(b, PIECE_TYPES[i], ~b.turn))
    /\ bit_count(after.occupied) = PieceCount(after, WHITE) + PieceCount(after, BLACK)

\* C38: for every move yielded by legal_moves, make_move leaves the mover's
\* piece count unchanged, decreases the opponent's count by one on a capture
\* (en passant included) and by zero otherwise, never increases either count,
\* and puts no piece on the board but the promoted piece replacing a pawn.
C38_PieceCounts ==
    [][op' = "make_move" /\ err' = "ok" => CountsKept(board, LastMove(board'), board')]_vars

\* a castling move has been made without a rook in the corner: the mover has
\* one piece more than before and the opponent one less
C38_Witness ==
    /\ op = "make_move"
    /\ err = "ok"
    /\ Len(board.history) > 0
    /\ LastMove(board).is_castling
    /\ LET before == unmake_move(board)
       IN  /\ ~IsCapture(before, LastMove(board))
           /\ PieceCount(board, before.turn) = PieceCount(before, before.turn) + 1
           /\ PieceCount(board, ~before.turn) = PieceCount(before, ~before.turn) - 1

-----------------------------------------------------------------------------
(* The generators of _pseudo_legal_moves and legal_moves, resumed item by    *)
(* item on the board as it is at each resumption                             *)

\* a generator object before its first item is requested: the body has not run.
\* stage is the loop of _pseudo_legal_moves the generator stands in (0 before
\* the body runs, 1 pieces, 2 pawns, 3 castling, 4 returned); from_squares and
\* to_squares are what is left of the iterators of the two nested loops and
\* pending what is left to yield for the current to_square
NewGenerator ==
    [stage |-> 0, colour |-> WHITE, king |-> BB_EMPTY, king_pos |-> 0,
     protectors |-> BB_EMPTY, attacks |-> BB_EMPTY,
     from_squares |-> <<>>, from_square |-> 0, to_squares |-> <<>>, pending |-> <<>>]

\* the squares a piece may move to with every square it attacks, its own
\* pieces included
GenToSquaresUnfiltered(b, colour, from_square) ==
    bitboard_to_squares(moves_from_square(b, from_square, colour, TRUE, BB_EMPTY))

\* _pseudo_legal_moves, lines 291-294 and 300-303: the iterator over the squares
\* the piece on from_square may move to
GenToSquares(b, colour, from_square) ==
    bitboard_to_squares(moves_from_square(b, from_square, colour, FALSE, BB_EMPTY)
                            \ b.occupied_colour[colour])

\* legal_moves, lines 572-576, and _pseudo_legal_moves, lines 288-289: the first
\* request runs the bodies up to the first loop
GenStart(g, b) ==
    [g EXCEPT !.stage = 1,
              !.colour = b.turn,
              !.king = b.kings[b.turn],
              !.king_pos = msb(b.kings[b.turn]),
              !.protectors = protectors_of(b, msb(b.kings[b.turn]), b.turn),
              !.attacks = attack_bitboard(b, ~b.turn, b.kings[b.turn]),
              !.from_squares =
                    bitboard_to_squares(b.occupied_colour[b.turn] \ b.pawns[b.turn])]

\* the outer loop of a stage is exhausted: on to the next loop, lines 298-299
\* and 312-314
GenNextStage(g, b) ==
    IF g.stage = 1
        THEN [g EXCEPT !.stage = 2, !.from_squares = bitboard_to_squares(b.pawns[g.colour])]
    ELSE IF g.stage = 2
        THEN [g EXCEPT !.stage = 3,
                       !.from_square = msb(b.kings[g.colour]),
                       !.from_squares = bitboard_to_squares(b.castling_rights[g.colour])]
    ELSE [g EXCEPT !.stage = 4]

\* the outer loop takes its next square
GenNextFrom(g, b) ==
    IF g.stage = 3
        THEN [g EXCEPT !.from_squares = Tail(@),
                       !.pending = CastlingMove(b, g.from_square, Head(g.from_squares))]
        ELSE [g EXCEPT !.from_squares = Tail(@),
                       !.from_square = Head(g.from_squares),
                       !.to_squares = GenToSquares(b, g.colour, Head(g.from_squares))]

\* the inner loop takes its next square
GenNextTo(g, b) ==
    [g EXCEPT !.to_squares = Tail(@),
              !.pending =
                    IF g.stage = 1
                        THEN <<Move(g.from_square, Head(g.to_squares), FALSE, None)>>
                        ELSE PawnMovesTo(b, g.colour, g.from_square, Head(g.to_squares))]

\* next() on the generator of _pseudo_legal_moves, on the board as it is now:
\* the generator after it, and the move yielded or None at StopIteration
RECURSIVE PseudoResume(_, _)
PseudoResume(g, b) ==
    IF g.stage = 4 THEN [gen |-> g, move |-> None]
    ELSE IF g.pending # <<>>
        THEN [gen |-> [g EXCEPT !.pending = Tail(@)], move |-> Some(Head(g.pending))]
    ELSE IF g.to_squares # <<>> THEN PseudoResume(GenNextTo(g, b), b)
    ELSE IF g.from_squares # <<>> THEN PseudoResume(GenNextFrom(g, b), b)
    ELSE PseudoResume(GenNextStage(g, b), b)

\* legal_moves, lines 577-604, resumed: pseudo-legal moves are requested until
\* one passes the tests, which read the locals and the board as it is now
RECURSIVE LegalFilter(_, _)
LegalFilter(r, b) ==
    IF r.move = None THEN r
    ELSE IF Yielded(b, r.gen.king, r.gen.king_pos, r.gen.protectors, r.gen.attacks,
                    Val(r.move))
        THEN r
    ELSE LegalFilter(PseudoResume(r.gen, b), b)

\* next() on the generator board.legal_moves returned
LegalResume(g, b) ==
    LegalFilter(PseudoResume(IF g.stage = 0 THEN GenStart(g, b) ELSE g, b), b)

\* `for move in board.legal_moves:` is entered: the accessor returns a new
\* generator; listed is list(board.legal_moves) taken at the same moment, kept
\* for comparison; yielded collects the items of the loop
LazyFrame(b) ==
    [gen |-> NewGenerator, yielded |-> <<>>, listed |-> legal_moves(b), restarted |-> FALSE]

LazyFens ==
    {STARTING_STATE, FEN_PROMOTION, FEN_EN_PASSANT_PIN, FEN_CASTLING, FEN_ROOK_TAKEN,
     FEN_PIN_DOUBLED}

\* the depths of _traverse_moves and _negamax
LazyDepths == 1 .. 2

InitLazy == \E f \in LazyFens : Construct(f, FALSE) /\ Idle

\* _traverse_moves(board, d, 0) or _negamax(board, d, 0) enters its loop
EnterLoop ==
    /\ pc = "idle"
    /\ \E d \in LazyDepths : depth' = d
    /\ frames' = <<LazyFrame(board)>>
    /\ pc' = "loop"
    /\ UNCHANGED <<board, op, err, fen_in, counter, best_move, cmd, stdout, uci_in, parsed, game, ret, pool>>

\* the innermost loop requests its next item and gets a move: the body makes
\* the move and calls itself, up to the loop of the call or, at depth 0,
\* through its return
LoopItem ==
    /\ pc = "loop"
    /\ LegalResume(frames[Len(frames)].gen, board).move # None
    /\ LET r == LegalResume(frames[Len(frames)].gen, board)
           m == make_move(board, Val(r.move))
           fs == [frames EXCEPT ![Len(frames)].gen = r.gen,
                                ![Len(frames)].yielded = Append(@, Val(r.move))]
       IN  /\ board' = m.board
           /\ err' = m.err
           /\ IF depth - Len(frames) = 0
                THEN frames' = fs /\ pc' = "unmake"
                ELSE frames' = Append(fs, LazyFrame(m.board)) /\ pc' = "loop"
    /\ op' = "make_move"
    /\ UNCHANGED <<fen_in, depth, counter, best_move, cmd, stdout, uci_in, parsed, game, ret, pool>>

\* the loop of a nested call requests its next item and the generator stops:
\* the call returns
LoopReturn ==
    /\ pc = "loop"
    /\ Len(frames) > 1
    /\ LegalResume(frames[Len(frames)].gen, board).move = None
    /\ frames' = SubSeq(frames, 1, Len(frames) - 1)
    /\ pc' = "unmake"
    /\ UNCHANGED <<board, op, err, fen_in, depth, counter, best_move, cmd, stdout, uci_in, parsed, game, ret, pool>>

\* the loop of the outermost call requests its next item and the generator stops
LoopEnd ==
    /\ pc = "loop"
    /\ Len(frames) = 1
    /\ LegalResume(frames[1].gen, board).move = None
    /\ frames' = [frames EXCEPT ![1].gen = LegalResume(frames[1].gen, board).gen]
    /\ pc' = "done"
    /\ UNCHANGED <<board, op, err, fen_in, depth, counter, best_move, cmd, stdout, uci_in, parsed, game, ret, pool>>

\* board.unmake_move() after the call returned, and back to the loop
LoopUnmake ==
    /\ pc = "unmake"
    /\ board' = unmake_move(board)
    /\ pc' = "loop"
    /\ op' = "unmake_move"
    /\ err' = "ok"
    /\ UNCHANGED <<fen_in, depth, frames, counter, best_move, cmd, stdout, uci_in, parsed, game, ret, pool>>

\* the accessor is called again in the middle of the innermost loop: a new
\* generator replaces the one in use (once per loop)
CallAgain ==
    /\ pc = "loop"
    /\ frames[Len(frames)].yielded # <<>>
    /\ ~frames[Len(frames)].restarted
    /\ frames' = [frames EXCEPT ![Len(frames)].gen = NewGenerator,
                                ![Len(frames)].yielded = <<>>,
                                ![Len(frames)].restarted = TRUE]
    /\ UNCHANGED <<board, op, err, fen_in, pc, depth, counter, best_move, cmd, stdout, uci_in, parsed, game, ret, pool>>

\* the traversal has returned; the next one may start
LoopForget ==
    /\ pc = "done"
    /\ pc' = "idle"
    /\ depth' = 0
    /\ frames' = <<>>
    /\ UNCHANGED <<board, op, err, fen_in, counter, best_move, cmd, stdout, uci_in, parsed, game, ret, pool>>

NextLazy == EnterLoop \/ LoopItem \/ LoopReturn \/ LoopEnd \/ LoopUnmake \/ CallAgain \/ LoopForget

SpecLazy == InitLazy /\ [][NextLazy]_vars

\* s is the beginning of t
IsPrefix(s, t) == Len(s) <= Len(t) /\ s = SubSeq(t, 1, Len(s))

\* C39: a loop over the lazy legal_moves generator with a make_move /
\* unmake_move pair, or a whole nested traversal, between successive items
\* yields the moves of list(legal_moves) taken before any move was made, in the
\* same order, and all of them by the time it stops; a generator obtained by
\* calling the accessor again starts from the first move.
C39_LazySequence ==
    \A k \in DOMAIN frames :
        /\ IsPrefix(frames[k].yielded, frames[k].listed)
        /\ (k = Len(frames) /\ pc = "loop"
                /\ LegalResume(frames[k].gen, board).move = None)
            => frames[k].yielded = frames[k].listed
        /\ (k = 1 /\ pc = "done") => frames[k].yielded = frames[k].listed

\* a traversal of depth 2 has finished whose outermost loop was restarted after
\* it had yielded a move, and yielded more than one move after that
C39_Witness ==
    /\ pc = "done"
    /\ depth = 2
    /\ frames[1].restarted
    /\ Len(frames[1].yielded) > 1
    /\ frames[1].yielded = frames[1].listed

====
